---- MODULE Spec2Model ----
(***************************************************************************)
(* GoodFoods Reservation Agent: the Capacity Store (RestaurantDatabase),   *)
(* the Tool Dispatcher (MCPServer) and the Conversation Orchestrator       *)
(* (ReservationAgent.process_message), as one state machine.               *)
(***************************************************************************)
EXTENDS Integers, Sequences, FiniteSets, TLC

VARIABLES
    reservations,   \* RestaurantDatabase.reservations: id -> Reservation
    call,           \* the last store operation: what its caller observes
    rejected,       \* the caller's last request that was refused at the capacity sum
    threads,        \* concurrent create_reservation calls: position and locals of each
    conversation_history,   \* ReservationAgent.conversation_history
    turn,           \* process_message: its position, locals, gateway calls and events
    exchange,       \* the last request handle_request was given, and its response
    restaurants,    \* RestaurantDatabase.restaurants: id -> Restaurant, in dict order
    lookup          \* the last query (search, recommendations, alternative times)
                    \* and the list it returned

vars == <<reservations, call, rejected, threads, conversation_history, turn, exchange,
          restaurants, lookup>>
agent_vars == <<conversation_history, turn>>
catalog_vars == <<restaurants, lookup>>

----------------------------------------------------------------------------
(* Bounds of the model *)

MaxRes == 3         \* reservation identifiers uuid4 may draw
MaxParty == 2       \* largest party size passed in
MaxTurns == 2       \* user messages handled by one agent
MaxHistory == 5     \* a further turn starts only while the history is this short
MaxChunks == 2      \* fragments in one streamed answer
MaxBookings == 2    \* bookings made while the restaurants are added and searched
MaxRestaurants == 12    \* restaurants stored when recommendations are asked for

----------------------------------------------------------------------------
(* Data: models.py *)

Restaurants == {"r1", "r2"}
UnknownRestaurant == "r9"
RestaurantIds == Restaurants \cup {UnknownRestaurant}

\* Restaurant (name, address, operating_hours and description, which no
\* operation reads, are left out; the rating is kept in tenths: 46 is 4.6)
Restaurant(id, cuisine, location, capacity, price_range, rating) ==
    [id |-> id, cuisine |-> cuisine, location |-> location,
     seating_capacity |-> capacity, price_range |-> price_range, rating |-> rating]

\* the restaurants the application starts with (generate_restaurants, cut to two)
seed_restaurants ==
    <<Restaurant("r1", "Italian", "Downtown", 1, "$$", 46),
      Restaurant("r2", "Japanese", "Midtown", 2, "$$$", 42)>>

\* the keys of self.restaurants
StoredIds(rs) == {rs[i].id : i \in DOMAIN rs}

\* the place of a key in the dict
IndexOf(rs, id) == CHOOSE i \in DOMAIN rs : rs[i].id = id

\* restaurant.seating_capacity of a stored restaurant
seating_capacity(r) == restaurants[IndexOf(restaurants, r)].seating_capacity

Dates == {"2025-06-01"}
Times == {"19:00", "19:30"}
Names == {"Alice"}
\* party_size: int; the store takes any integer, a negative one too
PartySizes == {0 - 1} \cup (1..MaxParty)
PosPartySizes == 1..MaxParty
IdPool == 1..MaxRes
NoId == 0

\* Reservation (created_at, a wall-clock stamp no operation reads, is left out)
Reservation(r, d, t, p, n, s) ==
    [restaurant_id |-> r, date |-> d, time |-> t, party_size |-> p,
     customer_name |-> n, status |-> s]

\* what a store operation saw and answered: the operation, the reservation it
\* names or creates, what self.reservations.get(id) held when it was called
\* ("absent", or the status found), and the value returned
Called(op, id, was, ret) ==
    [op |-> op, reservation_id |-> id, was |-> was, ret |-> ret]

NoCall == Called("none", NoId, "absent", "None")

\* self.reservations.get(reservation_id): None, or the reservation (its status)
Found(res, id) == IF id \in DOMAIN res THEN res[id].status ELSE "absent"

NoRequest == [restaurant_id |-> "", date |-> "", time |-> "", party_size |-> 0,
              customer_name |-> ""]

Request(r, d, t, p, n) ==
    [restaurant_id |-> r, date |-> d, time |-> t, party_size |-> p,
     customer_name |-> n]

----------------------------------------------------------------------------
(* RestaurantDatabase: restaurant_db.py *)

RECURSIVE SumParty(_, _)
\* sum(res.party_size for res in existing_reservations)
SumParty(res, ids) ==
    IF ids = {} THEN 0
    ELSE LET i == CHOOSE x \in ids : TRUE
         IN  res[i].party_size + SumParty(res, ids \ {i})

\* get_restaurant: the restaurant is stored
get_restaurant(r) == r \in StoredIds(restaurants)

\* self.restaurants[restaurant.id] = restaurant: a new key goes to the end of
\* the dict, a key already there keeps its place and gets the new value
add_restaurant(rs, restaurant) ==
    IF restaurant.id \in StoredIds(rs)
    THEN [rs EXCEPT ![IndexOf(rs, restaurant.id)] = restaurant]
    ELSE Append(rs, restaurant)

\* a count that matches the slot by restaurant and date only
existing_reservations_any_time(res, r, d, t) ==
    {i \in DOMAIN res :
        /\ res[i].restaurant_id = r
        /\ res[i].date = d
        /\ res[i].status = "confirmed"}

\* the confirmed reservations check_availability counts
existing_reservations(res, r, d, t) ==
    {i \in DOMAIN res :
        /\ res[i].restaurant_id = r
        /\ res[i].date = d
        /\ res[i].time = t
        /\ res[i].status = "confirmed"}

\* a check that forgets the status filter (counts cancelled reservations too)
check_availability_any_status(res, r, d, t, p) ==
    IF ~get_restaurant(r) THEN FALSE
    ELSE IF p > seating_capacity(r) THEN FALSE
    ELSE SumParty(res, {i \in DOMAIN res :
                            /\ res[i].restaurant_id = r
                            /\ res[i].date = d
                            /\ res[i].time = t}) + p
            <= seating_capacity(r)

\* a check that compares the party with the capacity and counts no booking
check_availability_capacity_only(res, r, d, t, p) ==
    IF ~get_restaurant(r) THEN FALSE
    ELSE p <= seating_capacity(r)

\* check_availability on store `res`
check_availability(res, r, d, t, p) ==
    IF ~get_restaurant(r) THEN FALSE
    ELSE IF p > seating_capacity(r) THEN FALSE
    ELSE SumParty(res, existing_reservations(res, r, d, t)) + p
            <= seating_capacity(r)

\* str.lower(), for the cuisine and location strings that occur
lower(s) ==
    IF s \in {"Italian", "ITALIAN", "italian"} THEN "italian"
    ELSE IF s \in {"Japanese", "japanese"} THEN "japanese"
    ELSE IF s \in {"Downtown", "DOWNTOWN", "downtown"} THEN "downtown"
    ELSE IF s \in {"Midtown", "midtown"} THEN "midtown"
    ELSE IF s = "Thai" THEN "thai"
    ELSE s

\* the filters of a search; an argument left out (None) or falsy is "" or 0
Query(cuisine, location, party_size, date, time) ==
    [cuisine |-> cuisine, location |-> location, party_size |-> party_size,
     date |-> date, time |-> time]

\* a search that leaves the availability filter out
search_restaurants_without_availability(res, q) ==
    LET by_cuisine ==
            IF q.cuisine # ""
            THEN SelectSeq(restaurants, LAMBDA r : lower(r.cuisine) = lower(q.cuisine))
            ELSE restaurants
        by_location ==
            IF q.location # ""
            THEN SelectSeq(by_cuisine, LAMBDA r : lower(r.location) = lower(q.location))
            ELSE by_cuisine
    IN  IF q.party_size # 0
        THEN SelectSeq(by_location, LAMBDA r : r.seating_capacity >= q.party_size)
        ELSE by_location

\* search_restaurants on store `res`: results = list(self.restaurants.values()),
\* then one list comprehension for each filter that was given
search_restaurants(res, q) ==
    LET by_cuisine ==
            IF q.cuisine # ""
            THEN SelectSeq(restaurants, LAMBDA r : lower(r.cuisine) = lower(q.cuisine))
            ELSE restaurants
        by_location ==
            IF q.location # ""
            THEN SelectSeq(by_cuisine, LAMBDA r : lower(r.location) = lower(q.location))
            ELSE by_cuisine
        by_capacity ==
            IF q.party_size # 0
            THEN SelectSeq(by_location, LAMBDA r : r.seating_capacity >= q.party_size)
            ELSE by_location
    IN  IF q.date # "" /\ q.time # ""
        THEN SelectSeq(by_capacity,
                LAMBDA r : check_availability(res, r.id, q.date, q.time,
                              IF q.party_size # 0 THEN q.party_size ELSE 1))
        ELSE by_capacity

\* an insert that rebinds the whole dict to the new booking
Insert_replaces_all(res, id, r, d, t, p, n) ==
    [i \in {id} |-> Reservation(r, d, t, p, n, "confirmed")]

\* self.reservations[reservation.id] = reservation
Insert(res, id, r, d, t, p, n) ==
    [i \in DOMAIN res \cup {id} |->
        IF i = id THEN Reservation(r, d, t, p, n, "confirmed") ELSE res[i]]

\* a cancel that takes the reservation out of the dict
SetCancelled_deleting(res, id) ==
    [i \in DOMAIN res \ {id} |-> res[i]]

\* a cancel that marks every reservation of the same restaurant
SetCancelled_whole_restaurant(res, id) ==
    [i \in DOMAIN res |->
        IF res[i].restaurant_id = res[id].restaurant_id
        THEN [res[i] EXCEPT !.status = "cancelled"] ELSE res[i]]

\* reservation.status = "cancelled"
SetCancelled(res, id) ==
    [res EXCEPT ![id].status = "cancelled"]

\* the request was refused by the capacity sum (not by the size or the id checks)
RefusedBySum(res, r, d, t, p) ==
    /\ get_restaurant(r)
    /\ p <= seating_capacity(r)
    /\ ~check_availability(res, r, d, t, p)

\* the return value of create_reservation: the Reservation, or None
CreateReturn(ok) == IF ok THEN "Reservation" ELSE "None"

\* cancel_reservation returning True only for a confirmed reservation
CancelReturn_only_confirmed(res, id) ==
    IF id \in DOMAIN res /\ res[id].status = "confirmed" THEN "True" ELSE "False"

\* the return value of cancel_reservation
CancelReturn(res, id) == IF id \in DOMAIN res THEN "True" ELSE "False"

\* create_reservation on store `res`, with `id` the uuid4 drawn for the new
\* Reservation: the store it leaves and what the caller gets
CreateOutcome(res, r, d, t, p, n, id) ==
    IF ~check_availability(res, r, d, t, p)
    THEN [reservations |-> res,
          call |-> Called("create_reservation", NoId, "absent", CreateReturn(FALSE))]
    ELSE [reservations |-> Insert(res, id, r, d, t, p, n),
          call |-> Called("create_reservation", id, "absent", CreateReturn(TRUE))]

\* cancel_reservation on store `res`: the store it leaves and what the caller gets
CancelOutcome(res, id) ==
    [reservations |-> IF id \in DOMAIN res THEN SetCancelled(res, id) ELSE res,
     call |-> Called("cancel_reservation", id, Found(res, id), CancelReturn(res, id))]

\* str(uuid.uuid4()) is an identifier not in use; identifiers are opaque, so
\* the bookings are named in the order they are stored
FreshIds(res) ==
    {id \in IdPool \ DOMAIN res : \A j \in IdPool \ DOMAIN res : id <= j}

\* the identifier create_reservation draws (none when the availability check
\* fails)
Uuid4(res, r, d, t, p) ==
    IF check_availability(res, r, d, t, p) THEN FreshIds(res) ELSE {NoId}

create_reservation(r, d, t, p, n) ==
    \E id \in Uuid4(reservations, r, d, t, p) :
        LET o == CreateOutcome(reservations, r, d, t, p, n, id)
        IN  /\ reservations' = o.reservations
            /\ call' = o.call

cancel_reservation(id) ==
    LET o == CancelOutcome(reservations, id)
    IN  /\ reservations' = o.reservations
        /\ call' = o.call

----------------------------------------------------------------------------
(* MCPServer: mcp_server/server.py. Result texts are kept up to their fixed   *)
(* wording; the values interpolated into them (ids, dates, JSON) are left out *)

\* the arguments object of a tools/call; a key that is absent (arguments.get
\* gives None) or falsy is "" or 0
ToolArgs(r, d, t, p, n, id) ==
    [restaurant_id |-> r, date |-> d, time |-> t, party_size |-> p,
     customer_name |-> n, reservation_id |-> id]

NoArgs == ToolArgs("", "", "", 0, "", NoId)

MissingAvailabilityText ==
    "Missing required parameters: restaurant_id, date, time, party_size"
MissingReservationText ==
    "Missing required parameters: restaurant_id, date, time, party_size, customer_name"
MissingCancelText == "Missing required parameter: reservation_id"
RestaurantNotFoundText == "Restaurant not found"
ReservationConfirmedText == "Reservation confirmed!"
UnableToCreateText == "Unable to create reservation. Restaurant is not available"
ReservationNotFoundText == "Reservation not found"
CancelledText == "Reservation has been cancelled."
FailedToCancelText == "Failed to cancel reservation"
AvailableText == "Restaurant is available"
AlternativeTimesText == "Restaurant is not available at the time. Alternative times"
NotAvailableText == "Restaurant is not available"
NoRestaurantsText == "No restaurants found matching your criteria."
FoundRestaurantsText == "Found restaurant(s)"
NoRecommendationsText == "No restaurants found matching your preferences."
TopRecommendationsText == "Top recommendations"
UnknownToolText == "Unknown tool"

\* what a tool handler leaves: the store, the store call it made (if any) and
\* its content text, or the exception it raised
Handled(res, c, text) == [reservations |-> res, call |-> c, text |-> text, raised |-> FALSE]
Raised(res, c, text) == [reservations |-> res, call |-> c, text |-> text, raised |-> TRUE]

\* the canonical dining times _get_alternative_times probes, in order
time_slots ==
    <<"11:00", "11:30", "12:00", "12:30", "13:00", "13:30",
      "17:00", "17:30", "18:00", "18:30", "19:00", "19:30",
      "20:00", "20:30", "21:00", "21:30">>

RECURSIVE AlternativeTimesFrom(_, _, _, _, _, _, _)
AlternativeTimesFrom(res, r, d, requested, p, i, found) ==
    IF i > Len(time_slots) \/ Len(found) >= 3 THEN found
    ELSE AlternativeTimesFrom(res, r, d, requested, p, i + 1,
            IF time_slots[i] # requested /\ check_availability(res, r, d, time_slots[i], p)
            THEN Append(found, time_slots[i]) ELSE found)

\* a search that returns every other slot that is free
_get_alternative_times_unlimited(res, r, d, requested, p) ==
    SelectSeq(time_slots,
              LAMBDA t : t # requested /\ check_availability(res, r, d, t, p))

_get_alternative_times(res, r, d, requested, p) ==
    AlternativeTimesFrom(res, r, d, requested, p, 1, << >>)

\* an availability handler that makes room: it cancels the confirmed bookings
\* of a slot it finds full
_get_availability_releasing(res, c, a) ==
    IF a.restaurant_id = "" \/ a.date = "" \/ a.time = "" \/ a.party_size = 0
    THEN Handled(res, c, MissingAvailabilityText)
    ELSE IF check_availability(res, a.restaurant_id, a.date, a.time, a.party_size)
    THEN Handled(res, c, AvailableText)
    ELSE Handled([i \in DOMAIN res |->
                    IF i \in existing_reservations(res, a.restaurant_id, a.date, a.time)
                    THEN [res[i] EXCEPT !.status = "cancelled"] ELSE res[i]],
                 c, NotAvailableText)

_get_availability(res, c, a) ==
    IF a.restaurant_id = "" \/ a.date = "" \/ a.time = "" \/ a.party_size = 0
    THEN Handled(res, c, MissingAvailabilityText)
    ELSE IF check_availability(res, a.restaurant_id, a.date, a.time, a.party_size)
    THEN Handled(res, c, AvailableText)
    ELSE IF _get_alternative_times(res, a.restaurant_id, a.date, a.time,
                                   a.party_size) # << >>
    THEN Handled(res, c, AlternativeTimesText)
    ELSE Handled(res, c, NotAvailableText)

\* a handler that stores the booking even when the store declines it
_make_reservation_books_when_full(res, c, a, id) ==
    IF a.restaurant_id = "" \/ a.date = "" \/ a.time = "" \/ a.party_size = 0
          \/ a.customer_name = ""
    THEN Handled(res, c, MissingReservationText)
    ELSE IF ~get_restaurant(a.restaurant_id)
    THEN Handled(res, c, RestaurantNotFoundText)
    ELSE LET o == CreateOutcome(res, a.restaurant_id, a.date, a.time, a.party_size,
                                a.customer_name, id)
         IN  IF o.call.ret = "Reservation"
             THEN Handled(o.reservations, o.call, ReservationConfirmedText)
             ELSE Handled(Insert(res, id, a.restaurant_id, a.date, a.time, a.party_size,
                                 a.customer_name),
                          o.call, UnableToCreateText)

\* a handler that books before it looks at what it was given
_make_reservation_unvalidated(res, c, a, id) ==
    IF ~get_restaurant(a.restaurant_id)
    THEN Handled(res, c, RestaurantNotFoundText)
    ELSE LET o == CreateOutcome(res, a.restaurant_id, a.date, a.time, a.party_size,
                                a.customer_name, id)
         IN  IF o.call.ret = "Reservation"
             THEN Handled(o.reservations, o.call, ReservationConfirmedText)
             ELSE Handled(o.reservations, o.call, UnableToCreateText)

\* `id` is the uuid4 create_reservation draws when it stores the booking
_make_reservation(res, c, a, id) ==
    IF a.restaurant_id = "" \/ a.date = "" \/ a.time = "" \/ a.party_size = 0
          \/ a.customer_name = ""
    THEN Handled(res, c, MissingReservationText)
    ELSE IF ~get_restaurant(a.restaurant_id)
    THEN Handled(res, c, RestaurantNotFoundText)
    ELSE LET o == CreateOutcome(res, a.restaurant_id, a.date, a.time, a.party_size,
                                a.customer_name, id)
         IN  IF o.call.ret = "Reservation"
             THEN Handled(o.reservations, o.call, ReservationConfirmedText)
             ELSE Handled(o.reservations, o.call, UnableToCreateText)

_cancel_reservation(res, c, a) ==
    IF a.reservation_id = NoId
    THEN Handled(res, c, MissingCancelText)
    ELSE IF a.reservation_id \notin DOMAIN res       \* get_reservation
    THEN Handled(res, c, ReservationNotFoundText)
    ELSE LET o == CancelOutcome(res, a.reservation_id)
         IN  IF o.call.ret = "True"
             THEN Handled(o.reservations, o.call, CancelledText)
             ELSE Handled(o.reservations, o.call, FailedToCancelText)

\* search_restaurants called without any filter: every stored restaurant
_search_restaurants(res, c, a) ==
    IF search_restaurants(res, Query("", "", 0, "", "")) = << >>
    THEN Handled(res, c, NoRestaurantsText)
    ELSE Handled(res, c, FoundRestaurantsText)

\* arguments.get("preferences", {}); a key that is absent or falsy is "" or 0,
\* and min_rating, like the ratings, is in tenths
Preferences(cuisine, location, price_range, min_rating) ==
    [cuisine |-> cuisine, location |-> location, price_range |-> price_range,
     min_rating |-> min_rating]

NoPreferences == Preferences("", "", "", 0)

\* a score that is the rating and the preference bonuses, without the bonus
\* for high ratings
_calculate_recommendation_score_without_rating_bonus(restaurant, preferences) ==
    restaurant.rating
      + (IF preferences.cuisine # ""
            /\ lower(restaurant.cuisine) = lower(preferences.cuisine) THEN 30 ELSE 0)
      + (IF preferences.location # ""
            /\ lower(restaurant.location) = lower(preferences.location) THEN 20 ELSE 0)
      + (IF preferences.price_range # ""
            /\ restaurant.price_range = preferences.price_range THEN 10 ELSE 0)

\* _calculate_recommendation_score, in tenths of a point
_calculate_recommendation_score(restaurant, preferences) ==
    restaurant.rating
      + (IF preferences.cuisine # ""
            /\ lower(restaurant.cuisine) = lower(preferences.cuisine) THEN 30 ELSE 0)
      + (IF preferences.location # ""
            /\ lower(restaurant.location) = lower(preferences.location) THEN 20 ELSE 0)
      + (IF preferences.price_range # ""
            /\ restaurant.price_range = preferences.price_range THEN 10 ELSE 0)
      + (IF restaurant.rating >= 45 THEN 20
         ELSE IF restaurant.rating >= 40 THEN 10 ELSE 0)

\* the restaurants that pass the preference filters, in dict order
filtered(preferences) ==
    LET by_cuisine ==
            IF preferences.cuisine # ""
            THEN SelectSeq(restaurants,
                    LAMBDA r : lower(r.cuisine) = lower(preferences.cuisine))
            ELSE restaurants
        by_location ==
            IF preferences.location # ""
            THEN SelectSeq(by_cuisine,
                    LAMBDA r : lower(r.location) = lower(preferences.location))
            ELSE by_cuisine
        by_price ==
            IF preferences.price_range # ""
            THEN SelectSeq(by_location, LAMBDA r : r.price_range = preferences.price_range)
            ELSE by_location
    IN  IF preferences.min_rating # 0
        THEN SelectSeq(by_price, LAMBDA r : r.rating >= preferences.min_rating)
        ELSE by_price

\* (restaurant, score)
Scored(restaurant, score) == [restaurant |-> restaurant, score |-> score]

\* scored_restaurants before the sort
scored_restaurants(preferences) ==
    LET f == filtered(preferences)
    IN  [i \in 1..Len(f) |->
            Scored(f[i], _calculate_recommendation_score(f[i], preferences))]

\* scored_restaurants.sort(key=lambda x: x[1], reverse=True): a stable sort,
\* so an element comes behind those of higher score and behind those of its
\* own score that stood before it
SortByScore(scored) ==
    LET before(i) ==
            {j \in 1..Len(scored) :
                \/ scored[j].score > scored[i].score
                \/ scored[j].score = scored[i].score /\ j < i}
    IN  [k \in 1..Len(scored) |->
            scored[CHOOSE i \in 1..Len(scored) : Cardinality(before(i)) = k - 1]]

\* top_recommendations = scored_restaurants[:10]
FirstTen(sorted) ==
    SubSeq(sorted, 1, IF Len(sorted) < 10 THEN Len(sorted) ELSE 10)

top_recommendations(preferences) ==
    FirstTen(SortByScore(scored_restaurants(preferences)))

\* get_recommendations called without preferences: the ten best rated
_get_recommendations(res, c, a) ==
    IF top_recommendations(NoPreferences) = << >>
    THEN Handled(res, c, NoRecommendationsText)
    ELSE Handled(res, c, TopRecommendationsText)

\* a dispatch that answers an unknown tool in the content instead of raising
call_tool_lenient(res, c, tool_name, a, id) ==
    IF tool_name = "search_restaurants" THEN _search_restaurants(res, c, a)
    ELSE IF tool_name = "get_availability" THEN _get_availability(res, c, a)
    ELSE IF tool_name = "make_reservation" THEN _make_reservation(res, c, a, id)
    ELSE IF tool_name = "cancel_reservation" THEN _cancel_reservation(res, c, a)
    ELSE IF tool_name = "get_recommendations" THEN _get_recommendations(res, c, a)
    ELSE Handled(res, c, UnknownToolText)

call_tool(res, c, tool_name, a, id) ==
    IF tool_name = "search_restaurants" THEN _search_restaurants(res, c, a)
    ELSE IF tool_name = "get_availability" THEN _get_availability(res, c, a)
    ELSE IF tool_name = "make_reservation" THEN _make_reservation(res, c, a, id)
    ELSE IF tool_name = "cancel_reservation" THEN _cancel_reservation(res, c, a)
    ELSE IF tool_name = "get_recommendations" THEN _get_recommendations(res, c, a)
    ELSE Raised(res, c, UnknownToolText)       \* raise ValueError

\* the identifiers uuid4 may return inside a tools/call
ToolUuid4(res, tool_name, a) ==
    IF /\ tool_name = "make_reservation"
       /\ check_availability(res, a.restaurant_id, a.date, a.time, a.party_size)
    THEN FreshIds(res) ELSE {NoId}

\* handle_request for method tools/call: the response envelope (result, or the
\* internal-error code when the handler raised) and the store it leaves
handle_tools_call(res, c, request_id, tool_name, a, id) ==
    LET h == call_tool(res, c, tool_name, a, id)
    IN  IF h.raised
        THEN [id |-> request_id, error |-> TRUE, code |-> 0 - 32603, text |-> h.text,
              reservations |-> h.reservations, call |-> h.call]
        ELSE [id |-> request_id, error |-> FALSE, code |-> 0, text |-> h.text,
              reservations |-> h.reservations, call |-> h.call]

\* a JSON-RPC request: its id, its method and its params (the tool name and
\* arguments of a tools/call, whether `arguments` is an object at all, and the
\* uri of a resources/read)
McpRequest(id, method, name, a, is_object, uri) ==
    [id |-> id, method |-> method, name |-> name, arguments |-> a,
     is_object |-> is_object, uri |-> uri]

ToolsListText == "tools"
ResourcesListText == "resources"
RestaurantsListText == "contents: every restaurant"
RestaurantText == "contents: the restaurant"
UnknownResourceText == "Unknown resource URI"
MethodNotFoundText == "Method not found"
AttributeErrorText == "object has no attribute"

ListUri == "restaurants://list"
NoUri == ""

\* uri.startswith("restaurants://"), for the uris that occur
StartsWithRestaurants(uri) ==
    uri \in {"restaurants://list", "restaurants://r1", "restaurants://r2",
             "restaurants://r9"}

\* uri.replace("restaurants://", "")
RestaurantOf(uri) ==
    IF uri = "restaurants://r1" THEN "r1"
    ELSE IF uri = "restaurants://r2" THEN "r2"
    ELSE IF uri = "restaurants://r9" THEN "r9"
    ELSE "list"

\* _get_restaurant: the restaurant's contents, or ValueError
_get_restaurant(res, c, restaurant_id) ==
    IF ~get_restaurant(restaurant_id) THEN Raised(res, c, RestaurantNotFoundText)
    ELSE Handled(res, c, RestaurantText)

\* read_resource; a request without uri has uri None, which has no startswith
read_resource(res, c, uri) ==
    IF uri = ListUri THEN Handled(res, c, RestaurantsListText)
    ELSE IF uri = NoUri THEN Raised(res, c, AttributeErrorText)
    ELSE IF StartsWithRestaurants(uri) THEN _get_restaurant(res, c, RestaurantOf(uri))
    ELSE Raised(res, c, UnknownResourceText)

SupportedMethods == {"tools/list", "tools/call", "resources/list", "resources/read"}

\* a dispatcher that answers the caller's errors as unknown methods
ErrorCode_always_method_not_found(method, raised) == 0 - 32601

\* the code of the error envelope: the else branch, or the except branch
ErrorCode(method, raised) ==
    IF raised THEN 0 - 32603 ELSE 0 - 32601

\* a dispatcher that answers every request with id 1
ResponseId_fixed(request) == 1

\* request_id = request.get("id")
ResponseId(request) == request.id

\* the envelope: jsonrpc, id and one of result / error
Envelope(request, h, is_error) ==
    [id |-> ResponseId(request),
     keys |-> IF is_error THEN {"jsonrpc", "id", "error"} ELSE {"jsonrpc", "id", "result"},
     code |-> IF is_error THEN ErrorCode(request.method, h.raised) ELSE 0,
     text |-> h.text,
     reservations |-> h.reservations, call |-> h.call]

\* handle_request: `id` is the uuid4 a booking made by the request would get
handle_request(res, c, request, id) ==
    IF request.method = "tools/list"
    THEN Envelope(request, Handled(res, c, ToolsListText), FALSE)
    ELSE IF request.method = "tools/call"
    THEN LET h == IF request.is_object \/ request.name \notin
                        {"search_restaurants", "get_availability", "make_reservation",
                         "cancel_reservation", "get_recommendations"}
                  THEN call_tool(res, c, request.name, request.arguments, id)
                  ELSE Raised(res, c, AttributeErrorText)    \* arguments.get
         IN  Envelope(request, h, h.raised)
    ELSE IF request.method = "resources/list"
    THEN Envelope(request, Handled(res, c, ResourcesListText), FALSE)
    ELSE IF request.method = "resources/read"
    THEN LET h == read_resource(res, c, request.uri)
         IN  Envelope(request, h, h.raised)
    ELSE Envelope(request, Handled(res, c, MethodNotFoundText), TRUE)

\* what an observer of handle_request keeps of a call: the request, the
\* response and the store the request found
Exchange(request, response, before) ==
    [request |-> request,
     response |-> [id |-> response.id, keys |-> response.keys, code |-> response.code,
                   text |-> response.text],
     before |-> before]

NoExchange ==
    [request |-> McpRequest(0, "", "", NoArgs, TRUE, NoUri),
     response |-> [id |-> 0, keys |-> {}, code |-> 0, text |-> ""],
     before |-> << >>]

----------------------------------------------------------------------------
(* ReservationAgent: agent/agent.py. A text is a sequence of fragments, so    *)
(* that the streamed answer is the concatenation of its deltas.               *)

SystemText == "You are a helpful restaurant reservation assistant. ... make reservations, and get recommendations. ..."
ClarifyEmptyText == "Could you please clarify your request? I didn't catch that."
MoreOfTheSameText == "Do you want more recommendations similar to the ones I showed earlier, or would you like to change your preferences (cuisine, location, price)?"
WhatKindText == "What kind of recommendations are you looking for? Cuisine, location, or price range?"
NoPersonalNameText == "I don't have a personal name. If you'd like to make a reservation, please provide the customer's full name to use for the booking."
MoreDetailText == "Could you please provide a bit more detail so I can help? For example, which cuisine or area are you interested in?"
UsingToolsText == "Using tools: ..."
IssueApologyText == "I apologize, but I encountered an issue processing your request."
RephraseApologyText == "I apologize, but I'm having trouble completing your request. Please try rephrasing."
ErrorText == "Error processing message: ..."
ErrorExecutingText == "Error executing tool: Internal error: Unknown tool"

\* user messages, and what the patterns of _is_out_of_context make of each
UserMessages ==
    {"", "Any other recommendations?", "Can we have your name for the reservation?",
     "More?", "Book a table for 2 at Bella Roma"}

\* not user_message or not user_message.strip()
IsBlank(m) == m \in {"", "   "}
\* more_reco_pattern.search(msg)
MatchesMoreReco(m) == m \in {"Any other recommendations?", "any more suggestions"}
\* name_pattern.search(msg)
MatchesName(m) == m \in {"Can we have your name for the reservation?"}
\* len(tokens) <= 2 and (msg.endswith("?") or len(msg) < 15)
IsShortFollowUp(m) == m \in {"", "More?", "Thanks"}

\* the fragments a streamed answer is made of; a delta may carry no content
Fragments == {"", "I recommend ", "Bella Roma."}

\* "recommend" in text.lower(), for the texts that occur
MentionsRecommend(text) ==
    text \in {SystemText, MoreOfTheSameText, WhatKindText, TopRecommendationsText,
              "Any other recommendations?", "I recommend "}

\* "recommend" in (m.get("content") or "").lower()
ContainsRecommend(content) ==
    \E i \in 1..Len(content) : MentionsRecommend(content[i])

\* a tool-call directive of the gateway: id, function name, and the arguments
\* payload (json.loads succeeds with `arguments`, or raises JSONDecodeError)
Directive(id, name, parses, a) ==
    [id |-> id, name |-> name, parses |-> parses, arguments |-> a]

Entry(role, content, tool_calls, tool_call_id) ==
    [role |-> role, content |-> content, tool_calls |-> tool_calls,
     tool_call_id |-> tool_call_id]

SYSTEM_MESSAGE == Entry("system", <<SystemText>>, << >>, "")

\* what process_message yields: a str (status, answer fragment, clarification,
\* apology, error) or a dict with tool_name, arguments and result
StrEvent(text) ==
    [kind |-> "str", text |-> text, names |-> << >>, tool_name |-> "",
     arguments |-> NoArgs, result |-> ""]
StatusEvent(names) ==
    [kind |-> "str", text |-> UsingToolsText, names |-> names, tool_name |-> "",
     arguments |-> NoArgs, result |-> ""]
ToolEvent(tool_name, arguments, result) ==
    [kind |-> "dict", text |-> "", names |-> << >>, tool_name |-> tool_name,
     arguments |-> arguments, result |-> result]

\* one call of client.create_chat_completion: its mode, whether TOOLS was
\* passed, how the gateway answered, and how many tools the turn had run by then
GatewayCall(stream, tools, response, executed) ==
    [stream |-> stream, tools |-> tools, response |-> response, executed |-> executed]

\* the tool executions a turn has yielded so far
Executed(events) == Cardinality({i \in 1..Len(events) : events[i].kind = "dict"})

max_iterations == 5

\* _is_out_of_context: the clarifying response, or "" for (False, None)
_is_out_of_context(history, m) ==
    IF IsBlank(m) THEN ClarifyEmptyText
    ELSE IF MatchesMoreReco(m)
    THEN IF \E i \in 1..Len(history) : ContainsRecommend(history[i].content)
         THEN MoreOfTheSameText
         ELSE WhatKindText
    ELSE IF MatchesName(m) THEN NoPersonalNameText
    ELSE IF IsShortFollowUp(m) THEN MoreDetailText
    ELSE ""

\* _execute_tool: the request sent to the dispatcher (id 1, method tools/call)
\* and the text made of its response
_execute_tool(res, c, tool_name, a, id) ==
    LET response == handle_tools_call(res, c, 1, tool_name, a, id)
    IN  [reservations |-> response.reservations,
         call |-> response.call,
         result |-> IF response.error THEN ErrorExecutingText ELSE response.text]

\* the turn record: the locals of process_message, and what an observer of the
\* turn sees (its gateway calls, the chunks its stream delivered, its events,
\* and whether the turn before it ended in the except branch)
NoTurn ==
    [n |-> 0, pc |-> "idle", user_message |-> "", started_at |-> 1,
     iteration |-> 0, tools_executed |-> FALSE,
     tool_calls |-> << >>, tool_messages |-> << >>,
     gateway_calls |-> << >>, stream_chunks |-> << >>, events |-> << >>,
     after_raise |-> FALSE]

AgentInit ==
    /\ conversation_history = <<SYSTEM_MESSAGE>>
    /\ turn = NoTurn

\* the loop test and the check after the loop: `while iteration < max_iterations`
\* is left, and the rephrase apology yielded, when iteration >= max_iterations
AfterLoop(events, iteration) ==
    IF iteration >= max_iterations
    THEN Append(events, StrEvent(RephraseApologyText)) ELSE events

\* an except branch that swallows the exception without a word
RaiseEvents_silent(events) == events

\* except Exception as e: yield f"Error processing message: {str(e)}"
RaiseEvents(events) == Append(events, StrEvent(ErrorText))

\* the turn ended in the except branch: its last gateway call raised
Raised_in(t) ==
    /\ t.pc = "done"
    /\ t.gateway_calls # << >>
    /\ t.gateway_calls[Len(t.gateway_calls)].response = "raise"

\* a short-circuit that also records the user's message
ShortCircuitHistory_with_user(history, m, text) ==
    history \o <<Entry("user", <<m>>, << >>, ""), Entry("assistant", <<text>>, << >>, "")>>

\* the history after a turn answered locally
ShortCircuitHistory(history, m, text) ==
    Append(history, Entry("assistant", <<text>>, << >>, ""))

\* an agent that begins every turn it sends to the gateway from a fresh history
UserEntryHistory_restarts(history, m) ==
    <<SYSTEM_MESSAGE, Entry("user", <<m>>, << >>, "")>>

\* self.conversation_history.append({"role": "user", "content": user_message})
UserEntryHistory(history, m) ==
    Append(history, Entry("user", <<m>>, << >>, ""))

\* process_message up to the loop: the local pre-check, then the user entry
StartTurn ==
    /\ turn.pc \in {"idle", "done"}
    /\ turn.n < MaxTurns
    /\ Len(conversation_history) <= MaxHistory
    /\ \E m \in UserMessages :
         LET text == _is_out_of_context(conversation_history, m)
             fresh == [NoTurn EXCEPT !.n = turn.n + 1, !.user_message = m,
                                     !.started_at = Len(conversation_history),
                                     !.after_raise = Raised_in(turn)]
         IN  IF text # ""
             THEN /\ conversation_history' = ShortCircuitHistory(conversation_history, m, text)
                  /\ turn' = [fresh EXCEPT !.pc = "done",
                                           !.events = <<StrEvent(text)>>]
             ELSE /\ conversation_history' = UserEntryHistory(conversation_history, m)
                  /\ turn' = [fresh EXCEPT !.pc = "loop"]
    /\ UNCHANGED <<reservations, call, rejected, threads, exchange, catalog_vars>>

\* a gateway call that is offered the catalog whatever the turn has run
ToolsForThisCall_always(tools_executed) == TRUE

\* tools_for_this_call = None if tools_executed else self.TOOLS
ToolsForThisCall(tools_executed) == ~tools_executed

\* a loop whose guard lets no pass begin
LoopGuard_closed(iteration) == FALSE

\* a loop that goes on for as long as the gateway asks for tools
LoopGuard_unbounded(iteration) == TRUE

\* a loop that allows one iteration more
LoopGuard_off_by_one(iteration) == iteration <= max_iterations

\* while iteration < max_iterations
LoopGuard(iteration) == iteration < max_iterations

\* the directive lists the gateway answers with
Book2 == Directive("call_book", "make_reservation", TRUE,
                   ToolArgs("r2", "2025-06-01", "19:00", 2, "Alice", NoId))
\* a booking whose payload is cut short: text a reader can guess the fields
\* from, but not JSON
BookUnparsed == Directive("call_bad", "make_reservation", FALSE, Book2.arguments)
Cancel1 == Directive("call_cancel", "cancel_reservation", TRUE,
                     ToolArgs("", "", "", 0, "", 1))
Recommend == Directive("call_reco", "get_recommendations", TRUE, NoArgs)
Availability == Directive("call_avail", "get_availability", TRUE,
                          ToolArgs("r2", "2025-06-01", "19:00", 1, "", NoId))
Search == Directive("call_search", "search_restaurants", TRUE, NoArgs)
UnknownTool == Directive("call_other", "book_table", TRUE, NoArgs)

ToolCallLists ==
    {<<Book2, Availability>>, <<Cancel1, UnknownTool, Recommend, BookUnparsed, Search>>}

RECURSIVE ToolNames(_)
ToolNames(tcs) ==
    IF tcs = << >> THEN << >> ELSE <<Head(tcs).name>> \o ToolNames(Tail(tcs))

\* a non-streaming gateway call answered with tool-call directives
GatewayToolCalls ==
    /\ turn.pc = "loop"
    /\ LoopGuard(turn.iteration)
    /\ \E tcs \in ToolCallLists :
         /\ conversation_history' =
               Append(conversation_history, Entry("assistant", <<"">>, tcs, ""))
         /\ turn' = [turn EXCEPT
               !.iteration = @ + 1,
               !.gateway_calls = Append(@, GatewayCall(FALSE,
                                    ToolsForThisCall(turn.tools_executed), "tool_calls",
                               Executed(turn.events))),
               !.events = Append(@, StatusEvent(ToolNames(tcs))),
               !.tool_calls = tcs,
               !.tool_messages = << >>,
               !.pc = "tools"]
    /\ UNCHANGED <<reservations, call, rejected, threads, exchange, catalog_vars>>

\* a parser that makes what it can of a payload that is not JSON
ParseArguments_lenient(tc) == tc.arguments

\* arguments = json.loads(arguments_str), or {} on JSONDecodeError
ParseArguments(tc) == IF tc.parses THEN tc.arguments ELSE NoArgs

\* a loop that takes the directives from the far end of the list
NextDirective_from_the_end(tcs) == tcs[Len(tcs)]

\* for tool_call in tool_calls: the directive the loop takes next
NextDirective(tcs) == Head(tcs)

\* a tool message that does not say which directive it answers
ToolMessage_unkeyed(tc, result) == Entry("tool", <<result>>, << >>, "")

\* tool_message = {"role": "tool", "tool_call_id": tool_id, "content": result}
ToolMessage(tc, result) == Entry("tool", <<result>>, << >>, tc.id)

\* one directive: parse its arguments, run the tool, yield the tool-call data;
\* after the last one the results join the history and the loop continues
ExecuteTool ==
    /\ turn.pc = "tools"
    /\ LET tc == NextDirective(turn.tool_calls)
           arguments == ParseArguments(tc)
       IN  \E id \in ToolUuid4(reservations, tc.name, arguments) :
             LET x == _execute_tool(reservations, call, tc.name, arguments, id)
                 msgs == Append(turn.tool_messages, ToolMessage(tc, x.result))
                 evts == Append(turn.events, ToolEvent(tc.name, arguments, x.result))
                 last == Tail(turn.tool_calls) = << >>
             IN  /\ reservations' = x.reservations
                 /\ call' = x.call
                 /\ conversation_history' =
                       IF last THEN conversation_history \o msgs
                       ELSE conversation_history
                 /\ turn' = [turn EXCEPT
                       !.tool_calls = Tail(@),
                       !.tool_messages = msgs,
                       !.tools_executed = IF last THEN TRUE ELSE @,
                       !.events = IF last /\ ~LoopGuard(turn.iteration)
                                  THEN AfterLoop(evts, turn.iteration) ELSE evts,
                       !.pc = IF ~last THEN "tools"
                              ELSE IF LoopGuard(turn.iteration) THEN "loop"
                              ELSE "done"]
    /\ UNCHANGED <<rejected, threads, exchange, catalog_vars>>

\* a non-streaming gateway call answered without tool-call directives
GatewayNoToolCalls ==
    /\ turn.pc = "loop"
    /\ LoopGuard(turn.iteration)
    /\ turn' = [turn EXCEPT
          !.iteration = @ + 1,
          !.gateway_calls = Append(@, GatewayCall(FALSE,
                               ToolsForThisCall(turn.tools_executed), "message",
                               Executed(turn.events))),
          !.pc = "stream"]
    /\ UNCHANGED <<reservations, call, rejected, threads, exchange, conversation_history, catalog_vars>>

\* an else branch that leaves the loop without a word
InvalidResponseEvents_silent(events) == events

\* the else branch of `if "choices" in response and len(response["choices"]) > 0`
InvalidResponseEvents(events) == Append(events, StrEvent(IssueApologyText))

\* a non-streaming gateway call answered without choices
GatewayInvalid ==
    /\ turn.pc = "loop"
    /\ LoopGuard(turn.iteration)
    /\ turn' = [turn EXCEPT
          !.iteration = @ + 1,
          !.gateway_calls = Append(@, GatewayCall(FALSE,
                               ToolsForThisCall(turn.tools_executed), "invalid",
                               Executed(turn.events))),
          !.events = AfterLoop(InvalidResponseEvents(@), turn.iteration + 1),
          !.pc = "done"]
    /\ UNCHANGED <<reservations, call, rejected, threads, exchange, conversation_history, catalog_vars>>

\* a non-streaming gateway call that raises
GatewayRaises ==
    /\ turn.pc = "loop"
    /\ LoopGuard(turn.iteration)
    /\ turn' = [turn EXCEPT
          !.iteration = @ + 1,
          !.gateway_calls = Append(@, GatewayCall(FALSE,
                               ToolsForThisCall(turn.tools_executed), "raise",
                               Executed(turn.events))),
          !.events = RaiseEvents(@),
          !.pc = "done"]
    /\ UNCHANGED <<reservations, call, rejected, threads, exchange, conversation_history, catalog_vars>>

RECURSIVE Deltas(_)
\* the deltas that carry content, newest first
Deltas_newest_first(chunks) ==
    LET texts == SelectSeq(chunks, LAMBDA f : f # "")
    IN  [i \in 1..Len(texts) |-> StrEvent(texts[Len(texts) + 1 - i])]

\* the events of the deltas that carry content
Deltas(chunks) ==
    IF chunks = << >> THEN << >>
    ELSE (IF Head(chunks) # "" THEN <<StrEvent(Head(chunks))>> ELSE << >>)
            \o Deltas(Tail(chunks))

\* complete_response: the deltas that carry content, concatenated
CompleteResponse(chunks) == SelectSeq(chunks, LAMBDA f : f # "")

ChunkSeqs == UNION {[1..k -> Fragments] : k \in 0..MaxChunks}

\* the streaming gateway call for the final answer; the stream may fail after
\* any number of chunks
StreamFinal ==
    /\ turn.pc = "stream"
    /\ \E chunks \in ChunkSeqs, fails \in BOOLEAN :
         LET gw == GatewayCall(TRUE, ToolsForThisCall(turn.tools_executed),
                               IF fails THEN "raise" ELSE "stream",
                               Executed(turn.events))
             answer == CompleteResponse(chunks)
         IN  IF fails
             THEN /\ turn' = [turn EXCEPT
                        !.gateway_calls = Append(@, gw),
                        !.stream_chunks = chunks,
                        !.events = RaiseEvents(@ \o Deltas(chunks)),
                        !.pc = "done"]
                  /\ UNCHANGED conversation_history
             ELSE /\ turn' = [turn EXCEPT
                        !.gateway_calls = Append(@, gw),
                        !.stream_chunks = chunks,
                        !.events = AfterLoop(@ \o Deltas(chunks), turn.iteration),
                        !.pc = "done"]
                  /\ conversation_history' =
                        IF answer # << >>
                        THEN Append(conversation_history,
                                    Entry("assistant", answer, << >>, ""))
                        ELSE conversation_history
    /\ UNCHANGED <<reservations, call, rejected, threads, exchange, catalog_vars>>

AgentNext ==
    \/ StartTurn
    \/ GatewayToolCalls
    \/ ExecuteTool
    \/ GatewayNoToolCalls
    \/ GatewayInvalid
    \/ GatewayRaises
    \/ StreamFinal

----------------------------------------------------------------------------
(* The store driven one call at a time *)

\* app.py caches one agent, and so one store, for every Streamlit session
Sessions == {"s1", "s2"}

Idle == [pc |-> "idle", req |-> NoRequest]

StoreInit ==
    /\ reservations = << >>
    /\ call = NoCall
    /\ rejected = NoRequest

\* what a query was given and the list it returned
Lookup(op, query, result) == [op |-> op, query |-> query, result |-> result]

NoLookup == Lookup("none", << >>, << >>)

CatalogInit ==
    /\ restaurants = seed_restaurants
    /\ lookup = NoLookup

Init ==
    /\ CatalogInit
    /\ StoreInit
    /\ threads = [s \in Sessions |-> Idle]
    /\ AgentInit
    /\ exchange = NoExchange

CreateReservation ==
    /\ \E r \in RestaurantIds, d \in Dates, t \in Times, p \in PartySizes, n \in Names :
          create_reservation(r, d, t, p, n)
    /\ UNCHANGED <<rejected, threads, agent_vars, exchange, catalog_vars>>

CancelReservation ==
    /\ \E id \in IdPool : cancel_reservation(id)
    /\ UNCHANGED <<rejected, threads, agent_vars, exchange, catalog_vars>>

Next == CreateReservation \/ CancelReservation

Spec == Init /\ [][Next]_vars

----------------------------------------------------------------------------
(* A caller that keeps the request it was last refused and makes it again    *)
(* after cancellations (the booking scenario of the store's contract).       *)

\* the requests of the scenario: one evening hour
RebookTimes == {"19:00"}

RebookCreate ==
    /\ \E r \in RestaurantIds, d \in Dates, t \in RebookTimes, p \in PartySizes,
          n \in Names :
          /\ create_reservation(r, d, t, p, n)
          /\ rejected' = IF RefusedBySum(reservations, r, d, t, p)
                         THEN Request(r, d, t, p, n) ELSE rejected
    /\ UNCHANGED <<threads, agent_vars, exchange, catalog_vars>>

RebookCancel ==
    /\ \E id \in IdPool : cancel_reservation(id)
    /\ UNCHANGED <<rejected, threads, agent_vars, exchange, catalog_vars>>

RebookNext == RebookCreate \/ RebookCancel

RebookSpec == Init /\ [][RebookNext]_vars

----------------------------------------------------------------------------
(* Two sessions calling create_reservation on the shared store: the          *)
(* availability check (line 165) and the insert (line 180) are separate      *)
(* steps, and nothing in the store or in app.py holds a lock across them.    *)

\* create_reservation up to its check: returns None, or goes on to build the
\* Reservation
conc_check(s, r, d, t, p, n) ==
    /\ threads[s].pc = "idle"
    /\ IF ~check_availability(reservations, r, d, t, p)
       THEN /\ call' = CreateOutcome(reservations, r, d, t, p, n, NoId).call
            /\ UNCHANGED <<reservations, threads>>
       ELSE /\ threads' = [threads EXCEPT ![s] = [pc |-> "insert",
                                                  req |-> Request(r, d, t, p, n)]]
            /\ UNCHANGED <<reservations, call>>
    /\ UNCHANGED <<rejected, agent_vars, exchange, catalog_vars>>

\* create_reservation from the Reservation(...) constructor to its return
conc_insert(s) ==
    /\ threads[s].pc = "insert"
    /\ LET q == threads[s].req
       IN  \E id \in FreshIds(reservations) :
             /\ reservations' = Insert(reservations, id, q.restaurant_id, q.date,
                                       q.time, q.party_size, q.customer_name)
             /\ call' = Called("create_reservation", id, "absent", CreateReturn(TRUE))
    /\ threads' = [threads EXCEPT ![s] = Idle]
    /\ UNCHANGED <<rejected, agent_vars, exchange, catalog_vars>>

\* the sessions compete for the tables of one evening hour
ConcTimes == {"19:00"}

ConcCheck ==
    \E s \in Sessions, r \in RestaurantIds, d \in Dates, t \in ConcTimes,
       p \in PosPartySizes, n \in Names :
          conc_check(s, r, d, t, p, n)

ConcInsert == \E s \in Sessions : conc_insert(s)

ConcCancel ==
    /\ \E id \in IdPool : cancel_reservation(id)
    /\ UNCHANGED <<rejected, threads, agent_vars, exchange, catalog_vars>>

ConcNext == ConcCheck \/ ConcInsert \/ ConcCancel

ConcSpec == Init /\ [][ConcNext]_vars

----------------------------------------------------------------------------
(* Properties of the Capacity Store *)

RECURSIVE TotalOf(_, _)
TotalOf(res, ids) ==
    IF ids = {} THEN 0
    ELSE LET i == CHOOSE x \in ids : TRUE
         IN  res[i].party_size + TotalOf(res, ids \ {i})

\* the seats the confirmed bookings of a slot take
ConfirmedTotal(res, r, d, t) ==
    TotalOf(res, {i \in DOMAIN res : /\ res[i].restaurant_id = r
                                     /\ res[i].date = d
                                     /\ res[i].time = t
                                     /\ res[i].status = "confirmed"})

\* C1: after any sequence of create_reservation and cancel_reservation calls,
\* at every (restaurant, date, time) the party sizes of the confirmed
\* reservations sum to at most the restaurant's seating capacity.
C1_CapacityInvariant ==
    \A r \in Restaurants, d \in Dates, t \in Times :
        ConfirmedTotal(reservations, r, d, t) <= seating_capacity(r)

\* C2: when two create_reservation calls interleave on the shared store, every
\* stored booking still sits in a slot whose confirmed party sizes fit the
\* restaurant's seating capacity.
C2_NoOverbookingWhenInterleaved ==
    \A i \in DOMAIN reservations :
        LET b == reservations[i]
        IN  ConfirmedTotal(reservations, b.restaurant_id, b.date, b.time)
                <= seating_capacity(b.restaurant_id)

C4_CancelFreesOwnSlotOnly ==
    \A id \in IdPool :
        LET after == CancelOutcome(reservations, id).reservations
        IN  IF id \in DOMAIN reservations /\ reservations[id].status = "confirmed"
            THEN LET b == reservations[id]
                 IN  /\ ConfirmedTotal(after, b.restaurant_id, b.date, b.time)
                          = ConfirmedTotal(reservations, b.restaurant_id, b.date, b.time)
                              - b.party_size
                     /\ \A r \in Restaurants, d \in Dates, t \in Times :
                           <<r, d, t>> # <<b.restaurant_id, b.date, b.time>> =>
                              ConfirmedTotal(after, r, d, t)
                                  = ConfirmedTotal(reservations, r, d, t)
                     /\ DOMAIN after = DOMAIN reservations
                     /\ after[id] = [b EXCEPT !.status = "cancelled"]
                     /\ \A j \in DOMAIN reservations \ {id} : after[j] = reservations[j]
                     /\ CancelOutcome(after, id).reservations = after
            ELSE after = reservations

\* a confirmed booking was cancelled while others stay confirmed in its own
\* slot, at another time and at another restaurant
C4_Witness ==
    /\ call.op = "cancel_reservation"
    /\ call.was = "confirmed"
    /\ LET b == reservations[call.reservation_id]
       IN  /\ b.party_size > 0
           /\ \E j \in DOMAIN reservations :
                 /\ reservations[j].status = "confirmed"
                 /\ reservations[j].restaurant_id = b.restaurant_id
                 /\ reservations[j].time = b.time
           /\ \E j \in DOMAIN reservations :
                 /\ reservations[j].status = "confirmed"
                 /\ <<reservations[j].restaurant_id, reservations[j].time>>
                       # <<b.restaurant_id, b.time>>

\* C5: create_reservation returns a reservation iff check_availability holds
\* before the call; then exactly one reservation is added, confirmed, with the
\* given fields and an identifier no stored reservation has, and no stored
\* reservation changes; otherwise it returns None and the store is unchanged.
C5_CreateIffAvailable ==
    \A r \in RestaurantIds, d \in Dates, t \in Times, p \in PartySizes, n \in Names :
      \A id \in Uuid4(reservations, r, d, t, p) :
        LET o == CreateOutcome(reservations, r, d, t, p, n, id)
        IN  IF check_availability(reservations, r, d, t, p)
            THEN /\ o.call.ret = "Reservation"
                 /\ o.call.reservation_id \notin DOMAIN reservations
                 /\ DOMAIN o.reservations
                       = DOMAIN reservations \cup {o.call.reservation_id}
                 /\ o.reservations[o.call.reservation_id]
                       = Reservation(r, d, t, p, n, "confirmed")
                 /\ \A j \in DOMAIN reservations : o.reservations[j] = reservations[j]
            ELSE /\ o.call.ret = "None"
                 /\ o.call.reservation_id = NoId
                 /\ o.reservations = reservations

\* a booking was added next to an existing one that shares its slot
C5_Witness ==
    /\ call.op = "create_reservation"
    /\ call.ret = "Reservation"
    /\ \E j \in DOMAIN reservations \ {call.reservation_id} :
          /\ reservations[j].status = "confirmed"
          /\ reservations[j].restaurant_id
                = reservations[call.reservation_id].restaurant_id
          /\ reservations[j].time = reservations[call.reservation_id].time

\* C6: a request refused because the confirmed total of its slot plus its party
\* size exceeded the capacity succeeds when it is made again once cancellations
\* have brought confirmed total + party size within the capacity.
C6_RefusedRequestSucceedsAfterCancel ==
    LET q == rejected
    IN  ( /\ q # NoRequest
          /\ ConfirmedTotal(reservations, q.restaurant_id, q.date, q.time)
                + q.party_size <= seating_capacity(q.restaurant_id) )
        => \A id \in IdPool \ DOMAIN reservations :
             LET o == CreateOutcome(reservations, q.restaurant_id, q.date, q.time,
                                    q.party_size, q.customer_name, id)
             IN  /\ o.call.ret = "Reservation"
                 /\ o.reservations[id]
                       = Reservation(q.restaurant_id, q.date, q.time, q.party_size,
                                     q.customer_name, "confirmed")

\* capacity 2: a party of 2 booked, a party of 1 was refused, the party of 2
\* was cancelled, and the party of 1 has now booked
C6_Witness ==
    /\ rejected = Request("r2", "2025-06-01", "19:00", 1, "Alice")
    /\ call.op = "create_reservation"
    /\ call.ret = "Reservation"
    /\ DOMAIN reservations = {call.reservation_id} \cup
          {j \in DOMAIN reservations :
              reservations[j] = Reservation("r2", "2025-06-01", "19:00", 2,
                                            "Alice", "cancelled")}
    /\ Cardinality(DOMAIN reservations) = 2
    /\ reservations[call.reservation_id]
          = Reservation("r2", "2025-06-01", "19:00", 1, "Alice", "confirmed")

----------------------------------------------------------------------------
(* The dispatcher driven by a JSON-RPC client, one request at a time *)

RequestIds == {1, 7}

\* the required fields of the tools that have any
RequiredFields(tool_name) ==
    IF tool_name = "get_availability"
    THEN {"restaurant_id", "date", "time", "party_size"}
    ELSE IF tool_name = "make_reservation"
    THEN {"restaurant_id", "date", "time", "party_size", "customer_name"}
    ELSE IF tool_name = "cancel_reservation" THEN {"reservation_id"}
    ELSE {}

\* the argument object `a` without the keys `fields`
Without(a, fields) ==
    [f \in DOMAIN a |-> IF f \in fields THEN NoArgs[f] ELSE a[f]]

\* complete arguments of each tool, for one evening hour of one restaurant
\* and of a restaurant the store does not have
DispatchTimes == {"19:00"}
DispatchRestaurants == {"r2", UnknownRestaurant}
CompleteAvailability ==
    {ToolArgs(r, d, t, p, "", NoId) :
        r \in DispatchRestaurants, d \in Dates, t \in DispatchTimes, p \in PosPartySizes}
CompleteReservation ==
    {ToolArgs(r, d, t, p, n, NoId) :
        r \in DispatchRestaurants, d \in Dates, t \in DispatchTimes, p \in PosPartySizes,
        n \in Names}
CompleteCancel == {ToolArgs("", "", "", 0, "", id) : id \in IdPool}

\* arguments that lack one of the required fields, or all of them
LackingAvailability ==
    {Without(ToolArgs("r2", "2025-06-01", "19:00", 1, "", NoId), fs) :
        fs \in {{f} : f \in RequiredFields("get_availability")}
                  \cup {RequiredFields("get_availability")}}
LackingReservation ==
    {Without(ToolArgs("r2", "2025-06-01", "19:00", 1, "Alice", NoId), fs) :
        fs \in {{f} : f \in RequiredFields("make_reservation")}
                  \cup {RequiredFields("make_reservation")}}

ToolCalls ==
    ({"get_availability"} \X (CompleteAvailability \cup LackingAvailability))
    \cup ({"make_reservation"} \X (CompleteReservation \cup LackingReservation))
    \cup ({"cancel_reservation"} \X (CompleteCancel \cup {NoArgs}))
    \cup ({"search_restaurants", "get_recommendations", "book_table"} \X {NoArgs})

Uris == {ListUri, "restaurants://r1", "restaurants://r9", "menus://list", NoUri}

\* a tools/call request; its arguments may not be an object
ToolsCall ==
    \E rid \in RequestIds, tc \in ToolCalls, is_object \in BOOLEAN :
       (is_object \/ tc[2] = NoArgs) /\
       LET request == McpRequest(rid, "tools/call", tc[1], tc[2], is_object, NoUri)
       IN  \E id \in ToolUuid4(reservations, tc[1], tc[2]) :
              LET response == handle_request(reservations, call, request, id)
              IN  /\ reservations' = response.reservations
                  /\ call' = response.call
                  /\ exchange' = Exchange(request, response, reservations)
                  /\ UNCHANGED <<rejected, threads, agent_vars, catalog_vars>>

\* a resources/read request
ResourcesRead ==
    \E rid \in RequestIds, uri \in Uris :
       LET request == McpRequest(rid, "resources/read", "", NoArgs, TRUE, uri)
           response == handle_request(reservations, call, request, NoId)
       IN  /\ exchange' = Exchange(request, response, reservations)
           /\ reservations' = response.reservations
           /\ call' = response.call
           /\ UNCHANGED <<rejected, threads, agent_vars, catalog_vars>>

\* a request for a method without params: the two lists, or a method the
\* dispatcher does not have
OtherMethod ==
    \E rid \in RequestIds,
       method \in {"tools/list", "resources/list", "prompts/list", "initialize"} :
       LET request == McpRequest(rid, method, "", NoArgs, TRUE, NoUri)
           response == handle_request(reservations, call, request, NoId)
       IN  /\ exchange' = Exchange(request, response, reservations)
           /\ reservations' = response.reservations
           /\ call' = response.call
           /\ UNCHANGED <<rejected, threads, agent_vars, catalog_vars>>

DispatchNext == ToolsCall \/ ResourcesRead \/ OtherMethod

DispatchSpec == Init /\ [][DispatchNext]_vars

----------------------------------------------------------------------------
(* The agent driven turn by turn over the shared store *)

AgentSpec == Init /\ [][AgentNext]_vars

\* the history a turn started from (the history only grows)
HistoryAtStart == SubSeq(conversation_history, 1, turn.started_at)

NonStreaming(calls) == SelectSeq(calls, LAMBDA g : ~g.stream)
Offering(calls) == SelectSeq(calls, LAMBDA g : g.tools)
AlwaysToolCalls(calls) == \A i \in 1..Len(calls) : ~calls[i].stream => calls[i].response = "tool_calls"

\* the turn went past the local pre-check
EnteredLoop == turn.n > 0 /\ _is_out_of_context(HistoryAtStart, turn.user_message) = ""

\* C7: a turn whose every non-streaming gateway call is answered with a
\* non-empty list of tool-call directives never starts a sixth iteration and
\* never makes a streaming call; it ends after exactly 5 iterations, that is 5
\* non-streaming calls, with the rephrase apology as its last event, and at most
\* 5 of its gateway calls carry the tool catalog.
C7_AlwaysToolCallsStopsAtFive ==
    (EnteredLoop /\ AlwaysToolCalls(turn.gateway_calls)) =>
        /\ turn.iteration <= 5
        /\ Len(turn.gateway_calls) = turn.iteration
        /\ NonStreaming(turn.gateway_calls) = turn.gateway_calls
        /\ Len(Offering(turn.gateway_calls)) <= 5
        /\ turn.pc \in {"loop", "tools", "done"}
        /\ turn.pc = "loop" => turn.iteration < 5
        /\ turn.pc = "done" =>
              /\ turn.iteration = 5
              /\ Len(turn.gateway_calls) = 5
              /\ turn.events[Len(turn.events)] = StrEvent(RephraseApologyText)

C7_Witness ==
    /\ turn.pc = "done"
    /\ EnteredLoop
    /\ Len(turn.gateway_calls) = 5
    /\ AlwaysToolCalls(turn.gateway_calls)
    /\ turn.events[Len(turn.events)] = StrEvent(RephraseApologyText)
    /\ Executed(turn.events) > 5

\* C8: every gateway call of a turn, streaming or not, carries the tool catalog
\* exactly when the turn has executed no tool-call directive before it; so the
\* first call of a turn carries it and no call after an executed directive does.
C8_CatalogIffNoToolExecuted ==
    /\ \A i \in 1..Len(turn.gateway_calls) :
          turn.gateway_calls[i].tools <=> (turn.gateway_calls[i].executed = 0)
    /\ turn.gateway_calls # << >> => turn.gateway_calls[1].tools
    /\ \A i, j \in 1..Len(turn.gateway_calls) :
          (i < j /\ turn.gateway_calls[i].response = "tool_calls")
              => ~turn.gateway_calls[j].tools

C8_Witness ==
    /\ turn.pc = "done"
    /\ Len(turn.gateway_calls) = 3
    /\ turn.gateway_calls[1].tools
    /\ turn.gateway_calls[1].response = "tool_calls"
    /\ ~turn.gateway_calls[2].tools /\ ~turn.gateway_calls[2].stream
    /\ ~turn.gateway_calls[3].tools /\ turn.gateway_calls[3].stream

\* C9: a turn whose message makes a heuristic of _is_out_of_context fire is over
\* in the step that starts it: no gateway call, no tool execution, the store as
\* it was, one event (the canned text), and one new history entry, an assistant
\* entry with that text; the user's message is not in the history.
C9_ShortCircuitIsLocal ==
    [][(turn'.n = turn.n + 1
          /\ _is_out_of_context(conversation_history, turn'.user_message) # "")
        => LET text == _is_out_of_context(conversation_history, turn'.user_message)
           IN  /\ turn'.pc = "done"
               /\ turn'.gateway_calls = << >>
               /\ Executed(turn'.events) = 0
               /\ turn'.events = <<StrEvent(text)>>
               /\ reservations' = reservations
               /\ call' = call
               /\ conversation_history' =
                     Append(conversation_history, Entry("assistant", <<text>>, << >>, ""))
               /\ \A i \in 1..Len(conversation_history') :
                     i > Len(conversation_history)
                        => conversation_history'[i].role # "user"]_vars

C9_Witness ==
    /\ turn.n = 2
    /\ turn.pc = "done"
    /\ turn.user_message = "Can we have your name for the reservation?"
    /\ turn.events = <<StrEvent(NoPersonalNameText)>>
    /\ turn.gateway_calls = << >>
    /\ Len(conversation_history) = turn.started_at + 1
    /\ reservations # << >>

\* C10: on a freshly constructed agent the message "Any other recommendations?"
\* is answered with exactly the 'What kind of recommendations are you looking
\* for?' question.
C10_FreshAgentAsksWhatKind ==
    (turn.n = 1 /\ turn.pc = "done" /\ turn.user_message = "Any other recommendations?")
        => turn.events = <<StrEvent(WhatKindText)>>

\* the events that are the error text of the except branch
ErrorEvents(events) == {i \in 1..Len(events) : events[i] = StrEvent(ErrorText)}
RaisingCalls(calls) == {i \in 1..Len(calls) : calls[i].response = "raise"}

\* C11: a turn in which a gateway call (streaming or not) raises is over with
\* exactly one error text, its last event; the raising call is its last
\* gateway call and no directive is left to run; the next step of the agent is
\* the start of the next turn, which begins as any turn does (the local
\* pre-check, or the user entry and a loop at iteration 0 with the catalog
\* still on offer) and leaves the store alone. The error text is never emitted
\* by a turn in which nothing raised.
C11_RaiseEndsTurnWithOneError ==
    /\ [](/\ Raised_in(turn) =>
               /\ turn.events # << >>
               /\ turn.events[Len(turn.events)] = StrEvent(ErrorText)
               /\ Cardinality(ErrorEvents(turn.events)) = 1
               /\ RaisingCalls(turn.gateway_calls) = {Len(turn.gateway_calls)}
               /\ turn.tool_calls = << >>
          /\ ErrorEvents(turn.events) # {} => Raised_in(turn))
    /\ [][Raised_in(turn) =>
            /\ turn'.n = turn.n + 1
            /\ reservations' = reservations
            /\ turn'.gateway_calls = << >>
            /\ turn'.iteration = 0
            /\ ~turn'.tools_executed
            /\ LET text == _is_out_of_context(conversation_history, turn'.user_message)
               IN  IF text # ""
                   THEN /\ turn'.pc = "done"
                        /\ turn'.events = <<StrEvent(text)>>
                        /\ conversation_history' =
                              Append(conversation_history,
                                     Entry("assistant", <<text>>, << >>, ""))
                   ELSE /\ turn'.pc = "loop"
                        /\ turn'.events = << >>
                        /\ conversation_history' =
                              Append(conversation_history,
                                     Entry("user", <<turn'.user_message>>, << >>, ""))]_vars

\* the turn after a turn that raised, answered by a streamed text
C11_Witness ==
    /\ turn.after_raise
    /\ turn.n = 2
    /\ turn.pc = "done"
    /\ turn.gateway_calls # << >>
    /\ turn.gateway_calls[Len(turn.gateway_calls)].response = "stream"
    /\ Executed(turn.events) > 0
    /\ conversation_history[Len(conversation_history)] =
          Entry("assistant", <<"I recommend ", "Bella Roma.">>, << >>, "")

\* the answer fragments among the events of a turn, in the order emitted
EmittedDeltas(events) ==
    LET deltas == SelectSeq(events, LAMBDA e : e.kind = "str" /\ e.text \in Fragments)
    IN  [i \in 1..Len(deltas) |-> deltas[i].text]

StreamingCalls(calls) == {i \in 1..Len(calls) : calls[i].stream}

\* the turn is over and one of its non-streaming calls came back without
\* tool-call directives
AnsweredWithoutToolCalls ==
    /\ turn.pc = "done"
    /\ \E i \in 1..Len(turn.gateway_calls) : turn.gateway_calls[i].response = "message"

LastEntry == conversation_history[Len(conversation_history)]

\* C12 as stated: such a turn, when its stream does not raise, makes exactly
\* one streaming call and ends with an assistant entry, the last of the
\* history, whose content is the concatenation of the emitted deltas.
C12_StreamAlwaysAppendsAnswer ==
    (AnsweredWithoutToolCalls
        /\ turn.gateway_calls[Len(turn.gateway_calls)].response = "stream")
    => /\ Cardinality(StreamingCalls(turn.gateway_calls)) = 1
       /\ LastEntry = Entry("assistant", EmittedDeltas(turn.events), << >>, "")

\* C12, amended: such a turn makes exactly one streaming call, its last gateway
\* call, and emits the deltas that carry text in arrival order; when the stream
\* ends without raising and some delta carried text, the turn ends with an
\* assistant entry, the last of the history, whose content is the concatenation
\* of the emitted deltas; when no delta carried text, or the stream raised,
\* no assistant entry is appended.
C12_StreamAppendsNonEmptyAnswer ==
    AnsweredWithoutToolCalls =>
       LET last == turn.gateway_calls[Len(turn.gateway_calls)]
           emitted == EmittedDeltas(turn.events)
       IN  /\ StreamingCalls(turn.gateway_calls) = {Len(turn.gateway_calls)}
           /\ emitted = SelectSeq(turn.stream_chunks, LAMBDA f : f # "")
           /\ (last.response = "stream" /\ emitted # << >>)
                 => LastEntry = Entry("assistant", emitted, << >>, "")
           /\ (last.response = "raise" \/ emitted = << >>)
                 => LastEntry.role \in {"user", "tool"}

\* an answer of two different fragments, streamed after a tool round
C12_Witness ==
    /\ AnsweredWithoutToolCalls
    /\ turn.tools_executed
    /\ turn.stream_chunks = <<"I recommend ", "Bella Roma.">>
    /\ EmittedDeltas(turn.events) = <<"I recommend ", "Bella Roma.">>
    /\ LastEntry = Entry("assistant", <<"I recommend ", "Bella Roma.">>, << >>, "")

\* the status events of a turn, and the tool-result events that follow one
StatusEvents(events) == {i \in 1..Len(events) : events[i].text = UsingToolsText}
ToolEvents(events) == {i \in 1..Len(events) : events[i].kind = "dict"}

\* C13: the tool-result events of an iteration follow its status event in the
\* order of the names the status event lists (the order of the gateway's
\* directive list), one per directive run so far; no tool-result event comes
\* without a status event before it; while directives are still to run, the
\* ones left are the tail of the gateway's list, the results collected so far
\* carry the ids of its head in order, and nothing has been run ahead of the
\* events: as many tool-result events follow the status event as directives
\* have been taken off the list.
C13_DirectivesRunInOrderAfterStatus ==
    /\ \A s \in StatusEvents(turn.events) :
          LET names == turn.events[s].names
          IN  /\ names # << >>
              /\ \A j \in 1..Len(names) :
                    s + j <= Len(turn.events)
                       => /\ turn.events[s + j].kind = "dict"
                          /\ turn.events[s + j].tool_name = names[j]
              /\ s + Len(names) > Len(turn.events) => turn.pc = "tools"
    /\ \A e \in ToolEvents(turn.events) :
          \E s \in StatusEvents(turn.events) :
              s < e /\ e - s <= Len(turn.events[s].names)
    /\ turn.pc = "tools" =>
          LET list == LastEntry.tool_calls
              k == Len(list) - Len(turn.tool_calls)
              s == Len(turn.events) - k
          IN  /\ turn.tool_calls # << >>
              /\ k >= 0
              /\ turn.tool_calls = SubSeq(list, k + 1, Len(list))
              /\ s >= 1
              /\ turn.events[s] = StatusEvent(ToolNames(list))
              /\ Len(turn.tool_messages) = k
              /\ \A j \in 1..k :
                    /\ turn.tool_messages[j].tool_call_id = list[j].id
                    /\ turn.tool_messages[j].content = <<turn.events[s + j].result>>
                    /\ turn.events[s + j].tool_name = list[j].name
    /\ turn.pc # "tools" => turn.tool_calls = << >>

\* the booking has run and reported before the availability query that
\* follows it in the list is dispatched, and the query then sees the booking
C13_Witness ==
    /\ turn.pc = "loop"
    /\ turn.iteration = 1
    /\ turn.events =
          <<StatusEvent(<<"make_reservation", "get_availability">>),
            ToolEvent("make_reservation", Book2.arguments, ReservationConfirmedText),
            ToolEvent("get_availability", Availability.arguments, AlternativeTimesText)>>

\* the assistant entries of the turn that carry directives, and the positions
\* of the status events, both in order: the k-th of one goes with the k-th of
\* the other
DirectiveEntries ==
    SelectSeq(SubSeq(conversation_history, turn.started_at + 1, Len(conversation_history)),
              LAMBDA e : e.tool_calls # << >>)
StatusPositions ==
    SelectSeq([i \in 1..Len(turn.events) |-> i],
              LAMBDA i : turn.events[i].text = UsingToolsText)

\* the entries of the turn that answer directive tc
ResultsOf(tc) ==
    {i \in (turn.started_at + 1)..Len(conversation_history) :
        /\ conversation_history[i].role = "tool"
        /\ conversation_history[i].tool_call_id = tc.id}

\* the missing-parameters text of the tools that have required fields
MissingText(tool_name) ==
    IF tool_name = "get_availability" THEN MissingAvailabilityText
    ELSE IF tool_name = "make_reservation" THEN MissingReservationText
    ELSE IF tool_name = "cancel_reservation" THEN MissingCancelText
    ELSE ""

\* C14: a directive whose payload does not parse is run with the empty
\* argument object: its tool-result event carries the empty arguments and, for
\* a tool with required fields, the dispatcher's missing-parameters text; the
\* turn goes on (the directives after it run, no error text is emitted because
\* of it) and once the iteration's results join the history the directive has
\* its tool-result entry, with that text.
C14_UnparsedPayloadRunsWithEmptyArguments ==
    /\ Len(StatusPositions) = Len(DirectiveEntries)
    /\ \A k \in 1..Len(DirectiveEntries) :
          LET list == DirectiveEntries[k].tool_calls
              s == StatusPositions[k]
          IN  \A j \in 1..Len(list) :
                 (~list[j].parses /\ MissingText(list[j].name) # "") =>
                    /\ s + j <= Len(turn.events) =>
                          turn.events[s + j] =
                             ToolEvent(list[j].name, NoArgs, MissingText(list[j].name))
                    /\ (k < Len(DirectiveEntries) \/ turn.pc # "tools") =>
                          /\ s + Len(list) <= Len(turn.events)
                          /\ ResultsOf(list[j]) # {}
                          /\ \A i \in ResultsOf(list[j]) :
                                conversation_history[i].content =
                                   <<MissingText(list[j].name)>>
                    /\ ErrorEvents(turn.events) # {} =>
                          turn.gateway_calls[Len(turn.gateway_calls)].response = "raise"

\* the unparsed booking was run between two other directives, and the turn
\* went on to a streamed answer
C14_Witness ==
    /\ turn.pc = "done"
    /\ turn.gateway_calls # << >>
    /\ turn.gateway_calls[Len(turn.gateway_calls)].response = "stream"
    /\ LastEntry.role = "assistant"
    /\ \E e \in 1..Len(turn.events) :
          /\ turn.events[e] = ToolEvent("make_reservation", NoArgs, MissingReservationText)
          /\ e + 1 <= Len(turn.events)
          /\ turn.events[e + 1].tool_name = "search_restaurants"
    /\ \E i \in 1..Len(conversation_history) :
          conversation_history[i] = Entry("tool", <<MissingReservationText>>, << >>, "call_bad")
    /\ reservations = << >>

ToolNamesKnown ==
    {"search_restaurants", "get_availability", "make_reservation",
     "cancel_reservation", "get_recommendations"}

\* the requests for a supported method whose handling raises: a tool the
\* dispatcher does not have, arguments that are not an object, a uri that is
\* missing, of another scheme, or of a restaurant the store does not have
HandlingRaises(request) ==
    \/ /\ request.method = "tools/call"
       /\ request.name \notin ToolNamesKnown \/ ~request.is_object
    \/ /\ request.method = "resources/read"
       /\ request.uri # "restaurants://list"
       /\ request.uri \notin {"restaurants://r1", "restaurants://r2"}

Answered == exchange # NoExchange

\* C15: the response to a request carries the request's id and exactly one of
\* result and error; a method outside the four supported ones gets error code
\* -32601, a supported method whose handling raises gets error code -32603,
\* and every other request gets a result.
C15_EnvelopeCarriesIdAndOneOutcome ==
    Answered =>
       LET request == exchange.request
           response == exchange.response
       IN  /\ response.id = request.id
           /\ "id" \in response.keys /\ "jsonrpc" \in response.keys
           /\ ("result" \in response.keys) # ("error" \in response.keys)
           /\ request.method \notin SupportedMethods
                 => "error" \in response.keys /\ response.code = 0 - 32601
           /\ (request.method \in SupportedMethods /\ HandlingRaises(request))
                 => "error" \in response.keys /\ response.code = 0 - 32603
           /\ (request.method \in SupportedMethods /\ ~HandlingRaises(request))
                 => "result" \in response.keys

\* a call of a tool the dispatcher does not have, sent with id 7 after a booking
C15_Witness ==
    /\ Answered
    /\ exchange.request.id = 7
    /\ exchange.request.method = "tools/call"
    /\ exchange.request.name = "book_table"
    /\ exchange.response.id = 7
    /\ exchange.response.code = 0 - 32603
    /\ reservations # << >>

\* the field names a content text mentions
NamedFields(text) ==
    IF text = MissingAvailabilityText THEN {"restaurant_id", "date", "time", "party_size"}
    ELSE IF text = MissingReservationText
    THEN {"restaurant_id", "date", "time", "party_size", "customer_name"}
    ELSE IF text = MissingCancelText THEN {"reservation_id"}
    ELSE {}

\* the required fields of the tool that the arguments lack
MissingFields(tool_name, a) == {f \in RequiredFields(tool_name) : a[f] = NoArgs[f]}

\* the last request was a call, with an argument object, of a tool with
\* required fields
CalledWithFields ==
    /\ Answered
    /\ exchange.request.method = "tools/call"
    /\ exchange.request.is_object
    /\ RequiredFields(exchange.request.name) # {}

CalledWithUnknownId ==
    /\ CalledWithFields
    /\ MissingFields(exchange.request.name, exchange.request.arguments) = {}
    /\ \/ /\ exchange.request.name \in {"get_availability", "make_reservation"}
          /\ exchange.request.arguments.restaurant_id \notin Restaurants
       \/ /\ exchange.request.name = "cancel_reservation"
          /\ exchange.request.arguments.reservation_id \notin DOMAIN exchange.before

\* C17: such a call gets a result whose text reports that the restaurant or
\* the reservation was not found, and the store is as before.
C17_UnknownIdsReportedNotFound ==
    CalledWithUnknownId =>
       /\ "result" \in exchange.response.keys
       /\ exchange.response.text \in {RestaurantNotFoundText, ReservationNotFoundText}
       /\ reservations = exchange.before

\* the last request was a resources/read of a uri that is neither the list
\* nor the uri of a stored restaurant
ReadUnknownUri ==
    /\ Answered
    /\ exchange.request.method = "resources/read"
    /\ exchange.request.uri \notin {NoUri, ListUri}
    /\ ~(StartsWithRestaurants(exchange.request.uri)
           /\ RestaurantOf(exchange.request.uri) \in Restaurants)

\* C18 as stated: such a request is answered with an error that carries the
\* request's id and the method-not-found code -32601.
C18_UnknownUriIsMethodNotFound ==
    ReadUnknownUri =>
       /\ "error" \in exchange.response.keys
       /\ exchange.response.id = exchange.request.id
       /\ exchange.response.code = 0 - 32601

\* C18, amended: such a request is answered with an error (no result) that
\* carries the request's id and the internal-error code -32603, the store is
\* as before, and the code -32601 answers unknown methods only.
C18_UnknownUriIsInternalError ==
    /\ ReadUnknownUri =>
          /\ "error" \in exchange.response.keys
          /\ "result" \notin exchange.response.keys
          /\ exchange.response.id = exchange.request.id
          /\ exchange.response.code = 0 - 32603
          /\ reservations = exchange.before
    /\ (Answered /\ exchange.response.code = 0 - 32601)
          => exchange.request.method \notin SupportedMethods

\* a read of the uri of a restaurant the store does not have, sent with id 7
C18_Witness ==
    /\ ReadUnknownUri
    /\ exchange.request.uri = "restaurants://r9"
    /\ exchange.request.id = 7
    /\ exchange.response.text = RestaurantNotFoundText
    /\ exchange.response.code = 0 - 32603

\* the last request was a booking with every argument, for a stored
\* restaurant whose slot has no room for the party
BookingWithoutRoom ==
    /\ CalledWithFields
    /\ exchange.request.name = "make_reservation"
    /\ MissingFields("make_reservation", exchange.request.arguments) = {}
    /\ exchange.request.arguments.restaurant_id \in Restaurants
    /\ ConfirmedTotal(exchange.before, exchange.request.arguments.restaurant_id,
                      exchange.request.arguments.date, exchange.request.arguments.time)
          + exchange.request.arguments.party_size
          > seating_capacity(exchange.request.arguments.restaurant_id)

\* C19: a booking without room gets a result (no error) with the declined text
\* and the store is as before; and a request after which the store holds a
\* reservation it did not hold before is a make_reservation call whose result
\* text reports the confirmation, the new reservation being the one asked for.
C19_DeclinedBookingLeavesStore ==
    /\ BookingWithoutRoom =>
          /\ "result" \in exchange.response.keys
          /\ "error" \notin exchange.response.keys
          /\ exchange.response.text = UnableToCreateText
          /\ reservations = exchange.before
    /\ (Answered /\ DOMAIN reservations # DOMAIN exchange.before) =>
          /\ exchange.request.method = "tools/call"
          /\ exchange.request.name = "make_reservation"
          /\ "result" \in exchange.response.keys
          /\ exchange.response.text = ReservationConfirmedText
          /\ \E id \in DOMAIN reservations \ DOMAIN exchange.before :
                /\ DOMAIN reservations = DOMAIN exchange.before \cup {id}
                /\ reservations[id] =
                      Reservation(exchange.request.arguments.restaurant_id,
                                  exchange.request.arguments.date,
                                  exchange.request.arguments.time,
                                  exchange.request.arguments.party_size,
                                  exchange.request.arguments.customer_name,
                                  "confirmed")
                /\ \A j \in DOMAIN exchange.before : reservations[j] = exchange.before[j]

\* a party of 2 declined at a slot where a confirmed party of 1 leaves room
\* for one guest only, in a store that also holds a cancelled booking
C19_Witness ==
    /\ BookingWithoutRoom
    /\ exchange.request.arguments.party_size = 2
    /\ ConfirmedTotal(exchange.before, "r2", "2025-06-01", "19:00") = 1
    /\ \E id \in DOMAIN reservations : reservations[id].status = "cancelled"
    /\ exchange.response.text = UnableToCreateText
    /\ reservations = exchange.before

\* the reference predicate of check_availability
AvailabilityReference(res, r, d, t, p) ==
    IF r \notin Restaurants THEN FALSE
    ELSE IF p > seating_capacity(r) THEN FALSE
    ELSE ConfirmedTotal(res, r, d, t) + p <= seating_capacity(r)

\* C20: in every store state, for every restaurant id (stored or not), date,
\* time and party size, check_availability answers as the reference predicate:
\* False for a restaurant that is not stored, False for a party above the
\* capacity, and otherwise whether the confirmed parties of the slot plus this
\* party fit the capacity.
C20_CheckAvailabilityIsReference ==
    \A r \in RestaurantIds, d \in Dates, t \in Times, p \in PartySizes :
       check_availability(reservations, r, d, t, p)
          = AvailabilityReference(reservations, r, d, t, p)

\* create_reservation has just been refused by its check although a party of
\* 1 is within the capacity: a confirmed party fills the slot, next to a
\* cancelled booking of the same slot that does not count
C20_Witness ==
    /\ call.op = "create_reservation"
    /\ call.ret = CreateReturn(FALSE)
    /\ ~check_availability(reservations, "r2", "2025-06-01", "19:00", 1)
    /\ ConfirmedTotal(reservations, "r2", "2025-06-01", "19:00") = 2
    /\ \E id \in DOMAIN reservations :
          reservations[id] = Reservation("r2", "2025-06-01", "19:00", 1, "Alice", "cancelled")
    /\ check_availability(reservations, "r2", "2025-06-01", "19:30", 2)

----------------------------------------------------------------------------
(* The store with its restaurants: add_restaurant, bookings at the first     *)
(* restaurant, and searches.                                                 *)

\* the restaurants add_restaurant is given: the first one again with another
\* seating capacity, and a new one whose cuisine is written in lower case
NewRestaurants ==
    {Restaurant("r1", "Italian", "Downtown", c, "$$", 46) : c \in {1, 2}}
        \cup {Restaurant("r3", "italian", "Midtown", 2, "$", 40)}

CatalogTimes == {"19:00"}

\* the searches made: filters given in another case than stored, a cuisine
\* nobody serves, a date without a time
Queries ==
    {Query(cu, lo, p, dt[1], dt[2]) :
        cu \in {"", "ITALIAN", "Thai"}, lo \in {"", "downtown"},
        p \in {0, 1, 2},
        dt \in {<<"", "">>, <<"2025-06-01", "">>, <<"2025-06-01", "19:00">>}}

AddRestaurant ==
    /\ \E x \in NewRestaurants : restaurants' = add_restaurant(restaurants, x)
    /\ UNCHANGED <<reservations, call, rejected, threads, agent_vars, exchange, lookup>>

CatalogCreate ==
    /\ Cardinality(DOMAIN reservations) < MaxBookings
    /\ \E d \in Dates, t \in CatalogTimes, p \in {1, 2}, n \in Names :
          create_reservation("r1", d, t, p, n)
    /\ UNCHANGED <<rejected, threads, agent_vars, exchange, catalog_vars>>

CatalogCancel ==
    /\ \E id \in DOMAIN reservations : cancel_reservation(id)
    /\ UNCHANGED <<rejected, threads, agent_vars, exchange, catalog_vars>>

SearchRestaurants ==
    /\ \E q \in Queries :
          lookup' = Lookup("search_restaurants", q, search_restaurants(reservations, q))
    /\ UNCHANGED <<reservations, call, rejected, threads, agent_vars, exchange,
                   restaurants>>

CatalogNext == AddRestaurant \/ CatalogCreate \/ CatalogCancel \/ SearchRestaurants

CatalogSpec == Init /\ [][CatalogNext]_vars

\* two strings that differ at most in the case of their letters
SameIgnoringCase(a, b) ==
    \/ a = b
    \/ \E w \in {{"Italian", "ITALIAN", "italian"}, {"Japanese", "japanese"},
                  {"Downtown", "DOWNTOWN", "downtown"}, {"Midtown", "midtown"}} :
          a \in w /\ b \in w

\* the restaurant passes every filter the query supplies
PassesFilters(x, q) ==
    /\ q.cuisine # "" => SameIgnoringCase(x.cuisine, q.cuisine)
    /\ q.location # "" => SameIgnoringCase(x.location, q.location)
    /\ q.party_size # 0 => x.seating_capacity >= q.party_size
    /\ (q.date # "" /\ q.time # "") =>
          check_availability(reservations, x.id, q.date, q.time,
                             IF q.party_size = 0 THEN 1 ELSE q.party_size)

Searched == lookup.op = "search_restaurants"

\* the step is a search: the observer's record of the last query changes
SearchStep == lookup' # lookup /\ lookup'.op = "search_restaurants"

\* C21: search_restaurants returns exactly the stored restaurants that pass
\* every supplied filter (cuisine and location compared without regard to
\* case, seating_capacity >= party_size, and with both date and time given,
\* check_availability for party_size or 1), each of them once; nothing
\* matching gives the empty list; the search leaves the store as it was.
C21_SearchReturnsExactlyTheMatches ==
    [][SearchStep =>
        /\ UNCHANGED <<restaurants, reservations>>
        /\ \A x \in StoredIds(restaurants) :
              PassesFilters(restaurants[IndexOf(restaurants, x)], lookup'.query)
                <=> \E i \in DOMAIN lookup'.result : lookup'.result[i].id = x
        /\ \A i, j \in DOMAIN lookup'.result :
              lookup'.result[i].id = lookup'.result[j].id => i = j
        /\ \A i \in DOMAIN lookup'.result :
              /\ lookup'.result[i].id \in StoredIds(restaurants)
              /\ lookup'.result[i] =
                    restaurants[IndexOf(restaurants, lookup'.result[i].id)]]_vars

\* a search by cuisine, seats, date and time that found a restaurant and left
\* out one that serves the cuisine and has the seats but is booked
C21_Witness ==
    /\ Searched
    /\ lookup.query.cuisine = "ITALIAN"
    /\ lookup.query.party_size # 0
    /\ lookup.query.time # ""
    /\ lookup.result # << >>
    /\ \E x \in DOMAIN restaurants :
          /\ lower(restaurants[x].cuisine) = "italian"
          /\ restaurants[x].seating_capacity >= lookup.query.party_size
          /\ \A i \in DOMAIN lookup.result : lookup.result[i].id # restaurants[x].id

----------------------------------------------------------------------------
(* The restaurants are stored one after the other, as initialize_components  *)
(* does, and recommendations are asked for in between.                       *)

\* the ids of the restaurants, in the order they are stored
RestaurantNames ==
    <<"r1", "r2", "r3", "r4", "r5", "r6", "r7", "r8", "r10", "r11", "r12", "r13",
      "r14", "r15">>

\* the ratings the k-th restaurant may have: round(random.uniform(3.5, 5.0), 1)
RatingsOf(k) ==
    IF k <= 6 THEN {40, 46}
    ELSE IF k % 3 = 0 THEN {38} ELSE IF k % 3 = 1 THEN {44} ELSE {45}

\* the k-th restaurant generated, with the rating drawn for it
Generated(k, rating) ==
    Restaurant(RestaurantNames[k],
               IF k % 3 = 0 THEN "Japanese" ELSE "Italian",
               IF k % 2 = 0 THEN "Midtown" ELSE "Downtown",
               2,
               IF k % 4 = 0 THEN "$$$" ELSE "$$",
               rating)

\* the preferences recommendations are asked with
RecommendPreferences ==
    {NoPreferences,
     Preferences("ITALIAN", "", "", 0),
     Preferences("italian", "downtown", "$$", 0),
     Preferences("", "midtown", "", 40),
     Preferences("", "", "$$$", 0),
     Preferences("", "", "", 45),
     Preferences("Thai", "", "", 0)}

AddNextRestaurant ==
    /\ Len(restaurants) < MaxRestaurants
    /\ \E rating \in RatingsOf(Len(restaurants) + 1) :
          restaurants' =
              add_restaurant(restaurants, Generated(Len(restaurants) + 1, rating))
    /\ UNCHANGED <<reservations, call, rejected, threads, agent_vars, exchange, lookup>>

\* recommendations_data: the id and the score of each recommendation
RecommendationsData(top) ==
    [i \in 1..Len(top) |->
        [id |-> top[i].restaurant.id, recommendation_score |-> top[i].score]]

GetRecommendations ==
    /\ \E q \in RecommendPreferences :
          lookup' = Lookup("get_recommendations", q,
                           RecommendationsData(top_recommendations(q)))
    /\ UNCHANGED <<reservations, call, rejected, threads, agent_vars, exchange,
                   restaurants>>

RecommendNext == AddNextRestaurant \/ GetRecommendations

RecommendSpec == Init /\ [][RecommendNext]_vars

\* the step is a call of get_recommendations
RecommendStep == lookup' # lookup /\ lookup'.op = "get_recommendations"

\* the restaurant passes the filters the preferences supply
PassesPreferences(x, q) ==
    /\ q.cuisine # "" => SameIgnoringCase(x.cuisine, q.cuisine)
    /\ q.location # "" => SameIgnoringCase(x.location, q.location)
    /\ q.price_range # "" => x.price_range = q.price_range
    /\ q.min_rating # 0 => x.rating >= q.min_rating

\* which of the preferences the restaurant matches
PreferenceMatches(x, q) ==
    <<q.cuisine # "" /\ SameIgnoringCase(x.cuisine, q.cuisine),
      q.location # "" /\ SameIgnoringCase(x.location, q.location),
      q.price_range # "" /\ x.price_range = q.price_range>>

\* rating + 3 (cuisine) + 2 (location) + 1 (price) + 2 or 1 for a high rating,
\* in tenths
ScoreOfClaim(x, q) ==
    LET m == PreferenceMatches(x, q)
    IN  x.rating + (IF m[1] THEN 30 ELSE 0) + (IF m[2] THEN 20 ELSE 0)
          + (IF m[3] THEN 10 ELSE 0)
          + (IF x.rating >= 45 THEN 20 ELSE IF x.rating >= 40 THEN 10 ELSE 0)

StoredAs(id) == restaurants[IndexOf(restaurants, id)]

\* C22: get_recommendations returns at most 10 restaurants; each passes the
\* cuisine, location, price and minimum-rating filters supplied and carries
\* the score rating + 3 + 2 + 1 (matches) + 2 or 1 (rating >= 4.5, >= 4.0);
\* the list is in non-increasing score, a restaurant left out scores no more
\* than the last one listed, with identical preference matches the higher
\* rating comes first, and equal scores keep the order of the store.
C22_TopTenByScoreStable ==
    [][RecommendStep =>
        LET R == lookup'.result
            q == lookup'.query
        IN  /\ Len(R) <= 10
            /\ \A i \in DOMAIN R :
                  /\ R[i].id \in StoredIds(restaurants)
                  /\ PassesPreferences(StoredAs(R[i].id), q)
                  /\ R[i].recommendation_score = ScoreOfClaim(StoredAs(R[i].id), q)
            /\ \A i, j \in DOMAIN R :
                  i < j =>
                    /\ R[i].recommendation_score >= R[j].recommendation_score
                    /\ R[i].recommendation_score = R[j].recommendation_score
                          => IndexOf(restaurants, R[i].id) < IndexOf(restaurants, R[j].id)
                    /\ PreferenceMatches(StoredAs(R[i].id), q)
                            = PreferenceMatches(StoredAs(R[j].id), q)
                          => StoredAs(R[i].id).rating >= StoredAs(R[j].id).rating
            /\ \A x \in DOMAIN restaurants :
                  (/\ PassesPreferences(restaurants[x], q)
                   /\ \A i \in DOMAIN R : R[i].id # restaurants[x].id)
                    => /\ Len(R) = 10
                       /\ ScoreOfClaim(restaurants[x], q) <= R[10].recommendation_score
            /\ UNCHANGED <<restaurants, reservations>>]_vars

\* recommendations over more than ten candidates: ten are listed, two of
\* equal score among them, one rated 4.6 stored behind one rated 4.0 it
\* outranks
C22_Witness ==
    /\ lookup.op = "get_recommendations"
    /\ lookup.query = NoPreferences
    /\ Len(lookup.result) = 10
    /\ Len(restaurants) = MaxRestaurants
    /\ \E i \in 1..9 :
          lookup.result[i].recommendation_score = lookup.result[i + 1].recommendation_score
    /\ \E i, j \in 1..10 :
          /\ i < j
          /\ IndexOf(restaurants, lookup.result[i].id)
                > IndexOf(restaurants, lookup.result[j].id)

----------------------------------------------------------------------------
(* Tables at the first restaurant are booked and cancelled over the first    *)
(* lunch slots, and alternatives are asked for a slot that is not available. *)

SlotTimes == {"11:00", "11:30", "12:00"}

SlotCreate ==
    /\ \E d \in Dates, t \in SlotTimes, n \in Names :
          create_reservation("r1", d, t, 1, n)
    /\ UNCHANGED <<rejected, threads, agent_vars, exchange, catalog_vars>>

SlotCancel ==
    /\ \E id \in DOMAIN reservations : cancel_reservation(id)
    /\ UNCHANGED <<rejected, threads, agent_vars, exchange, catalog_vars>>

\* the else branch of _get_availability: the requested slot is not available
GetAlternativeTimes ==
    /\ \E d \in Dates, t \in SlotTimes, p \in PosPartySizes :
          /\ ~check_availability(reservations, "r1", d, t, p)
          /\ lookup' = Lookup("_get_alternative_times",
                               ToolArgs("r1", d, t, p, "", NoId),
                               _get_alternative_times(reservations, "r1", d, t, p))
    /\ UNCHANGED <<reservations, call, rejected, threads, agent_vars, exchange,
                   restaurants>>

SlotNext == SlotCreate \/ SlotCancel \/ GetAlternativeTimes

SlotSpec == Init /\ [][SlotNext]_vars

\* the step is a search for alternative times
AlternativesStep == lookup' # lookup /\ lookup'.op = "_get_alternative_times"

\* the place of a time in the canonical list
SlotIndex(t) == CHOOSE k \in DOMAIN time_slots : time_slots[k] = t

\* C23: for a requested slot that is not available, the alternative-slot
\* search returns at most 3 canonical slots, none of them the requested time,
\* each available for the same restaurant, date and party size, in the order
\* of the canonical list, and it skips no available slot that comes before
\* the last one it returns (short of 3, it skips none at all).
C23_FirstThreeAvailableSlots ==
    [][AlternativesStep =>
        LET R == lookup'.result
            q == lookup'.query
            free(t) == check_availability(reservations, q.restaurant_id, q.date, t,
                                          q.party_size)
        IN  /\ ~free(q.time)
            /\ Len(R) <= 3
            /\ \A i \in DOMAIN R :
                  /\ R[i] # q.time
                  /\ \E k \in DOMAIN time_slots : time_slots[k] = R[i]
                  /\ free(R[i])
            /\ \A i, j \in DOMAIN R : i < j => SlotIndex(R[i]) < SlotIndex(R[j])
            /\ \A k \in DOMAIN time_slots :
                  (/\ time_slots[k] # q.time
                   /\ free(time_slots[k])
                   /\ \A i \in DOMAIN R : R[i] # time_slots[k])
                    => (Len(R) = 3 /\ k > SlotIndex(R[3]))]_vars

\* with 11:00 and 12:00 booked, the alternatives to 12:00 pass over 11:00 and
\* 12:00 and stop at the third free slot
C23_Witness ==
    /\ lookup.op = "_get_alternative_times"
    /\ lookup.query.time = "12:00"
    /\ lookup.query.party_size = 1
    /\ lookup.result = <<"11:30", "12:30", "13:00">>

----------------------------------------------------------------------------
(* Further properties of the agent's turns *)

\* the turn is over and its last gateway call came back without choices
Invalid_in(t) ==
    /\ t.pc = "done"
    /\ t.gateway_calls # << >>
    /\ t.gateway_calls[Len(t.gateway_calls)].response = "invalid"

IssueApologies(events) == {i \in 1..Len(events) : events[i] = StrEvent(IssueApologyText)}

\* C24: a non-streaming gateway response without choices ends the turn: the
\* step that receives it emits the generic apology, runs no tool and appends
\* nothing to the history; the invalid call stays the turn's last gateway
\* call, no directive is left to run, and the agent's next step is the start
\* of the next turn. The generic apology is emitted for no other reason.
C24_InvalidResponseEndsTurn ==
    /\ [](/\ Invalid_in(turn) =>
               /\ Cardinality(IssueApologies(turn.events)) = 1
               /\ \A i \in 1..Len(turn.gateway_calls) :
                     turn.gateway_calls[i].response = "invalid"
                        => i = Len(turn.gateway_calls)
               /\ turn.tool_calls = << >>
          /\ IssueApologies(turn.events) # {} => Invalid_in(turn))
    /\ [][(/\ turn'.n = turn.n
           /\ Len(turn'.gateway_calls) > Len(turn.gateway_calls)
           /\ turn'.gateway_calls[Len(turn'.gateway_calls)].response = "invalid")
          => /\ turn'.pc = "done"
             /\ conversation_history' = conversation_history
             /\ reservations' = reservations
             /\ Executed(turn'.events) = Executed(turn.events)
             /\ Len(turn'.gateway_calls) = Len(turn.gateway_calls) + 1
             /\ IssueApologies(turn'.events) = {Len(turn.events) + 1}]_vars
    /\ [][Invalid_in(turn) =>
            /\ turn'.n = turn.n + 1
            /\ turn'.gateway_calls = << >>
            /\ reservations' = reservations]_vars

\* a turn that ran a tool round and then got a response without choices
C24_Witness ==
    /\ Invalid_in(turn)
    /\ turn.tools_executed
    /\ Executed(turn.events) > 0
    /\ Len(turn.gateway_calls) = 2
    /\ turn.events[Len(turn.events)] = StrEvent(IssueApologyText)

\* C27: over any sequence of turns, however each ends, every step leaves the
\* entries the conversation history already had in place and unchanged and
\* at most appends to them, and the first entry is always the system
\* instruction.
C27_HistoryOnlyGrows ==
    /\ [](/\ conversation_history # << >>
          /\ conversation_history[1] = SYSTEM_MESSAGE)
    /\ [][/\ Len(conversation_history') >= Len(conversation_history)
          /\ SubSeq(conversation_history', 1, Len(conversation_history))
                = conversation_history]_vars

\* a second turn that ran tools and was answered, on top of a first turn that
\* left a user entry, directives and their results in the history
C27_Witness ==
    /\ turn.n = 2
    /\ turn.pc = "done"
    /\ turn.started_at >= 4
    /\ turn.tools_executed
    /\ Len(conversation_history) > turn.started_at + 2
    /\ conversation_history[2].role = "user"

RephraseApologies(events) ==
    {i \in 1..Len(events) : events[i] = StrEvent(RephraseApologyText)}

\* C28: a turn that is over has emitted the rephrase apology if and only if
\* all 5 of its loop iterations were answered with tool-call directives; a
\* turn that reached its streamed answer or the invalid-response apology on
\* any iteration, the 5th included, has not emitted it.
C28_RephraseIffFiveToolRounds ==
    turn.pc = "done" =>
        (RephraseApologies(turn.events) # {}
            <=> (Len(turn.gateway_calls) = 5 /\ AlwaysToolCalls(turn.gateway_calls)))

\* the turn has ended: by a final answer, an apology or the error text
TurnEnded == turn.pc = "done"

\* C29: once a turn has ended, every assistant entry of the history that
\* carries tool-call directives is followed at once by one tool-result entry
\* for each directive, in the order of the directives and with tool_call_id
\* the directive's id, and by no further tool-result entry; so no directive
\* is without its result and no tool-result entry without its directive.
C29_DirectivesHaveTheirResults ==
    TurnEnded =>
        /\ \A i \in DOMAIN conversation_history :
              LET tcs == conversation_history[i].tool_calls
              IN  tcs # << >> =>
                    /\ conversation_history[i].role = "assistant"
                    /\ i + Len(tcs) <= Len(conversation_history)
                    /\ \A k \in 1..Len(tcs) :
                          /\ conversation_history[i + k].role = "tool"
                          /\ conversation_history[i + k].tool_call_id = tcs[k].id
                    /\ i + Len(tcs) < Len(conversation_history)
                          => conversation_history[i + Len(tcs) + 1].role # "tool"
        /\ \A j \in DOMAIN conversation_history :
              conversation_history[j].role = "tool" =>
                  \E i \in 1..(j - 1) :
                      /\ conversation_history[i].tool_calls # << >>
                      /\ j - i <= Len(conversation_history[i].tool_calls)

\* a turn that ran both directive lists, an unknown tool and an unparseable
\* payload among them, and then ended in the except branch
C29_Witness ==
    /\ TurnEnded
    /\ Raised_in(turn)
    /\ \E i, j \in DOMAIN conversation_history :
          /\ i < j
          /\ Len(conversation_history[i].tool_calls) = 2
          /\ Len(conversation_history[j].tool_calls) = 5
          /\ conversation_history[j + 2].content = <<ErrorExecutingText>>

\* the events of a turn that are text for the user: answer fragments,
\* clarifications, apologies and the error text, not the status lines
TextEvents(events) ==
    {i \in 1..Len(events) : events[i].kind = "str" /\ events[i].text # UsingToolsText}

\* C30: a turn that has ended has emitted at least one text event (answer
\* fragment, clarification, apology or error), whatever the user message and
\* the gateway's behaviour.
C30_EveryTurnSaysSomething ==
    TurnEnded => TextEvents(turn.events) # {}

----------------------------------------------------------------------------
(* Further properties of the Capacity Store *)

\* C25: under any sequence of add_restaurant (a stored identifier given again
\* with another seating capacity included), create_reservation and
\* cancel_reservation, the party sizes of the confirmed reservations of each
\* (restaurant, date, time) sum to at most the restaurant's current
\* seating_capacity.
C25_CapacityHoldsUnderAddRestaurant ==
    \A r \in StoredIds(restaurants), d \in Dates, t \in CatalogTimes :
        ConfirmedTotal(reservations, r, d, t) <= seating_capacity(r)

\* C26: every reservation the store holds has a party size of at least 1,
\* whatever integer create_reservation was given.
C26_StoredPartySizesPositive ==
    \A i \in DOMAIN reservations : reservations[i].party_size >= 1

----------------------------------------------------------------------------
(* Frame properties of the dispatcher and the Capacity Store *)

\* the requests that reach create_reservation or cancel_reservation
WritingTools == {"make_reservation", "cancel_reservation"}

\* C31: a request handled by the dispatcher changes the reservations only when
\* it is a tools/call of make_reservation or cancel_reservation that reached
\* create_reservation or cancel_reservation; tools/list, resources/list,
\* resources/read, search_restaurants, get_availability, get_recommendations
\* and unknown tools or methods leave the reservations as they found them,
\* whatever their arguments and outcome, and no request changes the
\* restaurants.
C31_OnlyCreateAndCancelWrite ==
    [][/\ restaurants' = restaurants
       /\ reservations' # reservations
            => /\ exchange'.request.method = "tools/call"
               /\ exchange'.request.name \in WritingTools
               /\ call' # call
               /\ call'.op = (IF exchange'.request.name = "make_reservation"
                              THEN "create_reservation" ELSE "cancel_reservation")]_vars

\* get_availability has just answered for a full slot of a store that holds
\* bookings, and the store is the one the request found
C31_Witness ==
    /\ exchange.request.method = "tools/call"
    /\ exchange.request.name = "get_availability"
    /\ exchange.response.text = AlternativeTimesText
    /\ ConfirmedTotal(reservations, "r2", "2025-06-01", "19:00") = 2
    /\ exchange.before = reservations

\* the slot of the reservation the last store call wrote
WrittenSlot(res, c) ==
    <<res[c.reservation_id].restaurant_id, res[c.reservation_id].date,
      res[c.reservation_id].time>>

\* C32: a create_reservation or cancel_reservation that changes the store
\* changes it at one (restaurant, date, time); for every other restaurant
\* (stored or not) and every other date and time of the same restaurant,
\* check_availability answers after the call as it did before, for every
\* party size.
C32_OtherSlotsKeepTheirAvailability ==
    [][reservations' # reservations =>
          \A r \in RestaurantIds, d \in Dates, t \in Times, p \in PartySizes :
             <<r, d, t>> # WrittenSlot(reservations', call')
                => check_availability(reservations', r, d, t, p)
                      = check_availability(reservations, r, d, t, p)]_vars

\* a booking has just filled the 19:00 slot of r2 while the 19:30 slot of r2
\* holds a confirmed party of 1 and r1 is full at 19:00: the other slots
\* answer as before, each for its own parties
C32_Witness ==
    /\ call.op = "create_reservation"
    /\ call.ret = CreateReturn(TRUE)
    /\ WrittenSlot(reservations, call) = <<"r2", "2025-06-01", "19:00">>
    /\ ConfirmedTotal(reservations, "r2", "2025-06-01", "19:00") = 2
    /\ ConfirmedTotal(reservations, "r2", "2025-06-01", "19:30") = 1
    /\ ~check_availability(reservations, "r2", "2025-06-01", "19:00", 1)
    /\ check_availability(reservations, "r2", "2025-06-01", "19:30", 1)
    /\ ~check_availability(reservations, "r1", "2025-06-01", "19:00", 1)

\* the fields of a reservation that are set at creation
Booked(b) == [b EXCEPT !.status = "confirmed"]

\* C33: in every step of the dispatcher over the store, every stored
\* reservation stays stored with its restaurant, date, time, party size and
\* customer name; a status changes only from confirmed to cancelled, and only
\* in a cancel_reservation of that reservation; at most one reservation is
\* added, it is confirmed, and it is the one a create_reservation returned.
C33_LifeCycleIsOneWay ==
    [][/\ DOMAIN reservations \subseteq DOMAIN reservations'
       /\ \A id \in DOMAIN reservations :
             /\ Booked(reservations'[id]) = Booked(reservations[id])
             /\ reservations'[id].status # reservations[id].status
                   => /\ reservations[id].status = "confirmed"
                      /\ reservations'[id].status = "cancelled"
                      /\ call' = Called("cancel_reservation", id, "confirmed",
                                        CancelReturn(reservations, id))
       /\ \A id \in DOMAIN reservations' \ DOMAIN reservations :
             /\ DOMAIN reservations' = DOMAIN reservations \cup {id}
             /\ reservations'[id].status = "confirmed"
             /\ call' = Called("create_reservation", id, "absent", CreateReturn(TRUE))]_vars

\* a cancelled reservation was cancelled once more and is still stored,
\* cancelled, beside a reservation booked after the first cancel
C33_Witness ==
    /\ call.op = "cancel_reservation"
    /\ call.was = "cancelled"
    /\ call.reservation_id \in DOMAIN reservations
    /\ reservations[call.reservation_id].status = "cancelled"
    /\ exchange.request.name = "cancel_reservation"
    /\ \E j \in DOMAIN reservations :
          /\ j > call.reservation_id
          /\ reservations[j].status = "confirmed"
          /\ reservations[j].party_size = 2

----------------------------------------------------------------------------
(* Further properties of the agent's gateway calls *)

\* the places of the streaming and of the non-streaming calls of a turn
StreamingAt(calls) == {i \in 1..Len(calls) : calls[i].stream}
NonStreamingAt(calls) == {i \in 1..Len(calls) : ~calls[i].stream}

\* C34: at every point of every turn the turn has made at most 5
\* non-streaming and at most 1 streaming gateway call; a streaming call is the
\* last call of the turn, the call before it is a non-streaming call answered
\* without tool-call directives, and no tool has run since it was made; and
\* the turn waits for its streaming call only directly after such an answer.
C34_GatewayCallsPerTurn ==
    LET calls == turn.gateway_calls
    IN  /\ Cardinality(NonStreamingAt(calls)) <= max_iterations
        /\ Cardinality(StreamingAt(calls)) <= 1
        /\ \A i \in StreamingAt(calls) :
              /\ i = Len(calls)
              /\ i > 1
              /\ ~calls[i - 1].stream
              /\ calls[i - 1].response = "message"
              /\ calls[i].executed = Executed(turn.events)
              /\ turn.pc = "done"
        /\ turn.pc = "stream"
              => /\ calls # << >>
                 /\ ~calls[Len(calls)].stream
                 /\ calls[Len(calls)].response = "message"

\* a turn that ran tools in four rounds, was answered without directives on
\* the fifth call and streamed its answer: five non-streaming calls and one
\* streaming call
C34_Witness ==
    /\ turn.pc = "done"
    /\ Cardinality(NonStreamingAt(turn.gateway_calls)) = max_iterations
    /\ StreamingAt(turn.gateway_calls) = {max_iterations + 1}
    /\ turn.gateway_calls[max_iterations + 1].response = "stream"
    /\ Executed(turn.events) >= 8

\* process_message run to its end: a gateway call that was made returns or
\* raises, a directive that was taken is executed, and the stream that was
\* opened ends or fails; nothing makes the user send a message
AgentLiveSpec ==
    /\ Init
    /\ [][AgentNext]_vars
    /\ WF_vars(GatewayToolCalls \/ GatewayNoToolCalls \/ GatewayInvalid \/ GatewayRaises)
    /\ WF_vars(ExecuteTool)
    /\ WF_vars(StreamFinal)

\* the turn is inside the loop of process_message
Running == turn.pc \in {"loop", "tools", "stream"}

\* C35: every turn that entered the loop ends, whatever the gateway answers
\* (tool-call directives, text, invalid responses or failures in any order),
\* provided every gateway call returns or raises and every stream is finite.
C35_EveryTurnTerminates ==
    \A n \in 1..MaxTurns :
        (turn.n = n /\ Running) ~> (turn.n = n /\ turn.pc = "done")

\* a turn ended by a failure of its fifth gateway call, after four rounds of
\* tool calls
C35_Witness ==
    /\ turn.pc = "done"
    /\ Len(turn.gateway_calls) = max_iterations
    /\ turn.gateway_calls[max_iterations].response = "raise"
    /\ \A i \in 1..(max_iterations - 1) : turn.gateway_calls[i].response = "tool_calls"

\* the five tools of the catalog
CataloguedTools ==
    {"search_restaurants", "get_availability", "make_reservation",
     "cancel_reservation", "get_recommendations"}

\* C36: when the directive the turn takes next names a tool outside the
\* catalog, the dispatcher answers the tools/call with an error envelope of
\* code -32603, and the step that executes the directive leaves the store and
\* the last store call as they were, yields one tool-result event with the
\* text 'Error executing <tool>: ...', keeps a tool-result entry for the
\* directive (joined to the history after the last directive of the list),
\* yields no error message of the turn, and goes on with the next directive
\* or with the next pass of the loop.
C36_UnknownToolDoesNotAbortTheTurn ==
    [][turn.pc = "tools" /\ NextDirective(turn.tool_calls).name \notin CataloguedTools
        => LET tc == NextDirective(turn.tool_calls)
               arguments == ParseArguments(tc)
               response == handle_tools_call(reservations, call, 1, tc.name,
                                             arguments, NoId)
               last == Tail(turn.tool_calls) = << >>
               tool_messages == Append(turn.tool_messages,
                                       ToolMessage(tc, ErrorExecutingText))
               events == Append(turn.events,
                                ToolEvent(tc.name, arguments, ErrorExecutingText))
           IN  /\ response.error
               /\ response.code = 0 - 32603
               /\ response.text = UnknownToolText
               /\ reservations' = reservations
               /\ call' = call
               /\ turn'.tool_messages = tool_messages
               /\ turn'.tool_calls = Tail(turn.tool_calls)
               /\ conversation_history' =
                     IF last THEN conversation_history \o tool_messages
                     ELSE conversation_history
               /\ IF last /\ turn.iteration >= max_iterations
                  THEN /\ turn'.pc = "done"
                       /\ turn'.events = Append(events, StrEvent(RephraseApologyText))
                  ELSE /\ turn'.pc = (IF last THEN "loop" ELSE "tools")
                       /\ turn'.events = events]_vars

\* a turn ran the directive of the unknown tool book_table, went on through
\* the rest of the list and made its next gateway call; the history holds the
\* tool-result entry of the directive
C36_Witness ==
    /\ Len(turn.gateway_calls) >= 2
    /\ \E i \in 1..Len(turn.events) :
          turn.events[i] = ToolEvent("book_table", NoArgs, ErrorExecutingText)
    /\ \E i \in 1..Len(conversation_history) :
          conversation_history[i] = ToolMessage(UnknownTool, ErrorExecutingText)
    /\ \A i \in 1..Len(turn.events) : turn.events[i].text # ErrorText
    /\ turn.gateway_calls[2].executed = Len(turn.events) - 1
    /\ Len(turn.events) = 6

----------------------------------------------------------------------------
(* CerebrasClient: agent/cerebras_client.py. The agent over the client's     *)
(* non-streaming completion when the API refuses the model's tool call.      *)

\* the failures of chat.completions.create that _complete tells apart by the
\* text of the exception
ToolUseFailures == {"tool_use_failed", "No valid function calls generated"}

\* _complete: what create_chat_completion gives back for an outcome of the API
\* call: the response of the API as it is, the flagged response (choices with
\* content "" and tool_calls [], _tool_call_failed True) for a tool-use
\* failure, and an exception for every other failure
_complete(outcome) ==
    IF outcome \in ToolUseFailures THEN "tool_call_failed"
    ELSE IF outcome \in {"tool_calls", "message", "invalid"} THEN outcome
    ELSE "raise"

\* `if tool_calls` is false for a response with choices: the message has no
\* tool_calls or an empty list; process_message reads no other key of the
\* response
WithoutToolCalls(response) == response \in {"message", "tool_call_failed"}

\* a non-streaming call that the API fails with a tool-use failure
CerebrasToolUseFailed ==
    /\ turn.pc = "loop"
    /\ LoopGuard(turn.iteration)
    /\ \E outcome \in ToolUseFailures :
         LET response == _complete(outcome)
         IN  /\ WithoutToolCalls(response)
             /\ turn' = [turn EXCEPT
                   !.iteration = @ + 1,
                   !.gateway_calls = Append(@, GatewayCall(FALSE,
                                        ToolsForThisCall(turn.tools_executed), response,
                                        Executed(turn.events))),
                   !.pc = "stream"]
    /\ UNCHANGED <<reservations, call, rejected, threads, exchange, conversation_history, catalog_vars>>

CerebrasNext == AgentNext \/ CerebrasToolUseFailed

CerebrasSpec == Init /\ [][CerebrasNext]_vars

\* C37: a non-streaming call failed by the API with a tool-use failure comes
\* back as the flagged response, and the turn does not go on with it as with
\* a completion without tool calls: no streaming call for a final answer
\* follows it.
C37_FlaggedResponseIsCaught ==
    \A i \in 1..Len(turn.gateway_calls) :
        turn.gateway_calls[i].response = "tool_call_failed"
           => /\ ~(i = Len(turn.gateway_calls) /\ turn.pc = "stream")
              /\ i < Len(turn.gateway_calls) => ~turn.gateway_calls[i + 1].stream

----------------------------------------------------------------------------
(* OpenRouterClient: agent/openrouter_client.py. The non-streaming           *)
(* completion as a function of what the HTTP attempts are answered with.     *)

\* self.max_retries
max_retries == 3

\* what requests.post gives for an attempt: a response with a status code, or
\* a RequestException (timeout, connection error)
NoResponse == 0
HttpAnswers == {200, 204, 404, 429, 500, NoResponse}

\* what a run of _complete_with_retry does, in order
Post(attempt, answer) == [kind |-> "post", attempt |-> attempt, n |-> answer]
Sleep(seconds) == [kind |-> "sleep", attempt |-> 0 - 1, n |-> seconds]

\* how a run ends: `return response.json()` of an attempt, or the exception
\* raised after the loop
RetryResult(outcome, body_of, events) ==
    [outcome |-> outcome, body_of |-> body_of, events |-> events]

\* a backoff that waits one second every time
Backoff_constant(attempt) == 1

\* wait_time = (2 ** attempt) * 1
Backoff(attempt) == 2 ^ attempt

\* response.raise_for_status() raises HTTPError, a RequestException
RaisesForStatus(status) == status >= 400

RECURSIVE Attempts(_, _, _)
\* the passes of `for attempt in range(self.max_retries)` from `attempt` on
Attempts(answers, attempt, events) ==
    IF attempt >= max_retries
    THEN RetryResult("raise", 0 - 1, events)
    ELSE LET answer == answers[attempt + 1]
             posted == Append(events, Post(attempt, answer))
         IN  IF answer = 200
             THEN RetryResult("return", attempt, posted)
             ELSE IF answer = 429
             THEN Attempts(answers, attempt + 1,
                           Append(posted, Sleep(Backoff(attempt))))
             ELSE IF answer = NoResponse \/ RaisesForStatus(answer)
             THEN IF attempt < max_retries - 1
                  THEN Attempts(answers, attempt + 1,
                                Append(posted, Sleep(Backoff(attempt))))
                  ELSE RetryResult("raise", 0 - 1, posted)      \* break
             ELSE Attempts(answers, attempt + 1, posted)

_complete_with_retry(answers) == Attempts(answers, 0, << >>)

\* one non-streaming completion, for every way the attempts may be answered
CompleteWithRetry ==
    /\ \E answers \in [1..max_retries -> HttpAnswers] :
          lookup' = Lookup("_complete_with_retry", answers, _complete_with_retry(answers))
    /\ UNCHANGED <<reservations, call, rejected, threads, agent_vars, exchange, restaurants>>

RetryNext == CompleteWithRetry

RetrySpec == Init /\ [][RetryNext]_vars

\* the places of the HTTP attempts in a run
PostsAt(events) == {i \in 1..Len(events) : events[i].kind = "post"}

\* an attempt answered 429, or failed: no response, or an error status
RateLimitedOrFailed(answer) ==
    answer = 429 \/ answer = NoResponse \/ answer >= 400

\* C38: a non-streaming completion makes at most 3 HTTP attempts; when an
\* attempt is answered 200 it returns the body of the first such attempt and
\* makes no attempt after it; when none of 3 attempts is answered 200 it
\* raises after the third; a retry after a rate-limited (429) or failed
\* attempt comes after a wait of 2^attempt seconds, and every wait is of
\* 2^attempt seconds (1, 2 or 4) after such an attempt.
C38_AtMostThreeAttemptsWithBackoff ==
    lookup.op = "_complete_with_retry" =>
        LET answers == lookup.query
            r == lookup.result
            posts == PostsAt(r.events)
            ok == {k \in 1..max_retries : answers[k] = 200}
        IN  /\ Cardinality(posts) <= 3
            /\ \A i \in posts : r.events[i].n = answers[r.events[i].attempt + 1]
            /\ IF ok # {}
               THEN LET first == CHOOSE k \in ok : \A j \in ok : k <= j
                    IN  /\ r.outcome = "return"
                        /\ r.body_of = first - 1
                        /\ Cardinality(posts) = first
                        /\ r.events[Len(r.events)] = Post(first - 1, 200)
               ELSE /\ r.outcome = "raise"
                    /\ Cardinality(posts) = 3
            /\ \A i \in posts :
                  (RateLimitedOrFailed(r.events[i].n) /\ \E j \in posts : j > i)
                     => /\ r.events[i + 1] = Sleep(2 ^ r.events[i].attempt)
                        /\ i + 2 \in posts
            /\ \A i \in 1..Len(r.events) :
                  r.events[i].kind = "sleep"
                     => /\ i - 1 \in posts
                        /\ RateLimitedOrFailed(r.events[i - 1].n)
                        /\ r.events[i].n = 2 ^ r.events[i - 1].attempt
                        /\ r.events[i].n \in {1, 2, 4}

\* a completion that was rate-limited, then failed, then answered 200: it
\* waited 1 and 2 seconds and returned the body of the third attempt
C38_Witness ==
    /\ lookup.op = "_complete_with_retry"
    /\ lookup.query = <<429, 500, 200>>
    /\ lookup.result =
          RetryResult("return", 2,
                      <<Post(0, 429), Sleep(1), Post(1, 500), Sleep(2), Post(2, 200)>>)

----------------------------------------------------------------------------
(* Two consumers, each driving one process_message generator of the agent    *)
(* that app.py caches for every session. A generator runs from one yield to  *)
(* the next without the other running; at a yield either consumer may go on. *)
(* threads[s] holds the suspended generator of session s: the yield it is at *)
(* (pc), its locals, and the places of the history entries it appended.      *)

\* the locals of a generator that has just been called with message m
Generator(m) ==
    [pc |-> "idle", user_message |-> m, text |-> "", iteration |-> 0,
     tools_executed |-> FALSE, tool_calls |-> << >>, tool_messages |-> << >>,
     result |-> "", chunks |-> << >>, answer |-> << >>, appended |-> {}]

\* the places of k entries appended to history h
Places(h, k) == (Len(h) + 1)..(Len(h) + k)

\* after the loop: the rephrase apology is yielded, or the generator returns
LeaveLoop(s, g, h) ==
    /\ conversation_history' = h
    /\ threads' = [threads EXCEPT ![s] =
          [g EXCEPT !.pc = IF g.iteration >= max_iterations THEN "last" ELSE "done"]]

\* from the top of the while loop to the next yield, for generator locals g
\* and history h: the gateway answers with directives (when it was offered
\* the tools), with a streamed text, with a response without choices, or fails
RunLoop(s, g, h) ==
    IF ~LoopGuard(g.iteration) THEN LeaveLoop(s, g, h)
    ELSE LET n == [g EXCEPT !.iteration = @ + 1]
         IN  \/ /\ ToolsForThisCall(g.tools_executed)
                /\ conversation_history' =
                      Append(h, Entry("assistant", <<"">>, <<Book2, Availability>>, ""))
                /\ threads' = [threads EXCEPT ![s] =
                      [n EXCEPT !.pc = "status",
                                !.tool_calls = <<Book2, Availability>>,
                                !.tool_messages = << >>,
                                !.appended = @ \cup Places(h, 1)]]
             \/ \E chunks \in ChunkSeqs :
                   LET content == CompleteResponse(chunks)
                   IN  IF content = << >>
                       THEN LeaveLoop(s, n, h)
                       ELSE /\ conversation_history' = h
                            /\ threads' = [threads EXCEPT ![s] =
                                  [n EXCEPT !.pc = "chunk", !.chunks = Tail(content),
                                            !.answer = <<Head(content)>>]]
             \/ /\ conversation_history' = h
                /\ \E pc \in {"apology", "last"} :
                      threads' = [threads EXCEPT ![s] = [n EXCEPT !.pc = pc]]

\* process_message is called and runs to its first yield
GenStart ==
    /\ \E s \in Sessions, m \in UserMessages :
          /\ threads[s].pc = "idle"
          /\ LET text == _is_out_of_context(conversation_history, m)
             IN  IF text # ""
                 THEN /\ threads' = [threads EXCEPT ![s] =
                            [Generator(m) EXCEPT !.pc = "clarify", !.text = text]]
                      /\ UNCHANGED conversation_history
                 ELSE RunLoop(s, [Generator(m) EXCEPT
                                     !.appended = Places(conversation_history, 1)],
                              UserEntryHistory(conversation_history, m))
    /\ UNCHANGED <<reservations, call, rejected, turn, exchange, catalog_vars>>

\* resumed after the clarifying response: the response joins the history
GenClarified ==
    /\ \E s \in Sessions :
          /\ threads[s].pc = "clarify"
          /\ conversation_history' =
                Append(conversation_history,
                       Entry("assistant", <<threads[s].text>>, << >>, ""))
          /\ threads' = [threads EXCEPT ![s].pc = "done",
                                        ![s].appended = Places(conversation_history, 1)]
    /\ UNCHANGED <<reservations, call, rejected, turn, exchange, catalog_vars>>

\* resumed after the status or after the data of a directive that is not the
\* last: the tool message of that directive is kept, the next directive is
\* executed and its data yielded
GenRunTool ==
    /\ \E s \in Sessions :
          LET g == threads[s]
          IN  /\ g.pc = "status" \/ (g.pc = "tool" /\ Len(g.tool_calls) > 1)
              /\ LET msgs == IF g.pc = "tool"
                             THEN Append(g.tool_messages,
                                         ToolMessage(Head(g.tool_calls), g.result))
                             ELSE g.tool_messages
                     rest == IF g.pc = "tool" THEN Tail(g.tool_calls) ELSE g.tool_calls
                     tc == NextDirective(rest)
                     arguments == ParseArguments(tc)
                 IN  \E id \in ToolUuid4(reservations, tc.name, arguments) :
                        LET x == _execute_tool(reservations, call, tc.name, arguments, id)
                        IN  /\ reservations' = x.reservations
                            /\ call' = x.call
                            /\ threads' = [threads EXCEPT ![s] =
                                  [g EXCEPT !.pc = "tool", !.tool_calls = rest,
                                            !.tool_messages = msgs,
                                            !.result = x.result]]
    /\ UNCHANGED <<rejected, agent_vars, exchange, catalog_vars>>

\* resumed after the data of the last directive: the tool messages join the
\* history and the loop goes on to its next yield
GenToolsDone ==
    /\ \E s \in Sessions :
          LET g == threads[s]
          IN  /\ g.pc = "tool" /\ Len(g.tool_calls) = 1
              /\ LET msgs == Append(g.tool_messages,
                                    ToolMessage(Head(g.tool_calls), g.result))
                 IN  RunLoop(s, [g EXCEPT !.tool_calls = << >>, !.tool_messages = msgs,
                                          !.tools_executed = TRUE,
                                          !.appended = @ \cup Places(conversation_history,
                                                                     Len(msgs))],
                             conversation_history \o msgs)
    /\ UNCHANGED <<reservations, call, rejected, turn, exchange, catalog_vars>>

\* resumed after a fragment of the answer: the next fragment is yielded, or
\* the stream ends and the answer joins the history, or the stream fails
GenChunk ==
    /\ \E s \in Sessions :
          LET g == threads[s]
          IN  /\ g.pc = "chunk"
              /\ \/ /\ g.chunks # << >>
                    /\ threads' = [threads EXCEPT ![s].chunks = Tail(g.chunks),
                                                  ![s].answer = Append(g.answer, Head(g.chunks))]
                    /\ UNCHANGED conversation_history
                 \/ /\ g.chunks = << >>
                    /\ LeaveLoop(s, [g EXCEPT !.appended =
                                         @ \cup Places(conversation_history, 1)],
                                 Append(conversation_history,
                                        Entry("assistant", g.answer, << >>, "")))
                 \/ /\ threads' = [threads EXCEPT ![s].pc = "last"]
                    /\ UNCHANGED conversation_history
    /\ UNCHANGED <<reservations, call, rejected, turn, exchange, catalog_vars>>

\* resumed after an apology or an error message: the generator leaves the loop
\* and returns
GenFinish ==
    /\ \E s \in Sessions :
          \/ threads[s].pc = "apology" /\ LeaveLoop(s, threads[s], conversation_history)
          \/ /\ threads[s].pc = "last"
             /\ threads' = [threads EXCEPT ![s].pc = "done"]
             /\ UNCHANGED conversation_history
    /\ UNCHANGED <<reservations, call, rejected, turn, exchange, catalog_vars>>

GenNext == GenStart \/ GenClarified \/ GenRunTool \/ GenToolsDone \/ GenChunk \/ GenFinish

GenSpec == Init /\ [][GenNext]_vars

\* C39: the history entries a turn appends are next to each other: between
\* the first and the last place a generator wrote to, every place was written
\* by that generator, also when the steps of two generators interleave at
\* their yields.
C39_TurnsAreSerialInHistory ==
    \A s \in Sessions :
        threads[s].pc # "idle" =>
            \A i \in threads[s].appended, j \in threads[s].appended :
                \A k \in i..j : k \in threads[s].appended

====
